---- MODULE Spec2Model ----
(***************************************************************************)
(* A model of DLM_stats.py (deep layer mean steering flow statistics).     *)
(*                                                                         *)
(* Numbers.  Wind speeds are integers in tenths of a m/s (3.7 m/s is 37),   *)
(* float('nan') is the value NaN, coordinates are integers in hundredths   *)
(* of a degree (-81.75 is -8175).  Python lists are sequences; a Python    *)
(* index j is kept 0-based in the loop variables and read as seq[j + 1].   *)
(*                                                                         *)
(* Each function of the program has its own specification (SpecSeason,     *)
(* SpecFreq, ...): its Init draws the function's arguments from bounded    *)
(* sets and its actions are the steps of the function's loops.             *)
(***************************************************************************)
EXTENDS Integers, Sequences, FiniteSets, TLC

VARIABLES
    pc,                 \* position of the running function
    i, j,               \* the loop variables i and j of the running function
    wind_speeds,        \* wind_speeds[location][time]
    season,             \* the eleven arrays built by divideBySeason
    wind_speed_freq,    \* a frequency table (a list of counts), updated in place
    freq_in,            \* the frequency table as it was passed to the function
    norm_wind_speed_freq,   \* the list returned by normalizeWindSpeeds
    stagnant_flow,      \* the threshold passed to calcNumStagFlow
    num_stag_flow,      \* the count returned by calcNumStagFlow
    locs,               \* the monitored locations, [lon, lat] each
    dates_and_times,    \* the time of each column of wind_speeds
    lines,              \* the lines of the best track file
    times_to_remove,    \* readBestTracks: the times of the fixes near a location
    locs_to_remove,     \* readBestTracks: the locations near each of those fixes
    ws_in,              \* the values of wind_speeds when removeTCWinds was called
    region,             \* sys.argv[2], the regional abbreviation
    data_loc,           \* data['loc'], the locations of the data file
    data_ts,            \* data['ts'], the wind speeds of the data file
    temp_locs,          \* the locations the startup filter has kept
    temp_wind_speeds,   \* the wind speed rows the startup filter has kept
    point,              \* the [lon, lat] location the region rules are tried on
    selected,           \* the regional abbreviations whose filter keeps point
    new_lines,          \* getBestTrackSpeeds: the header lines and the synoptic lines of the file
    best_track_speeds,  \* getBestTrackSpeeds: the translation speeds
    best_track_speeds_79_97,\* getBestTrackSpeeds: the speeds of fixes before 1998
    best_track_speeds_98_16,\* getBestTrackSpeeds: the speeds of the other fixes
    time_interval,      \* averageWindsEachTime: the number of slots averaged over
    avg_wind_speeds,    \* averageWindsEachTime: the list of averages
    new_dates_and_times,\* averageWindsEachTime: the times of the averages
    wind_speeds_79_97,  \* bootstrap: the wind speeds of 1979-1997
    wind_speeds_98_16,  \* bootstrap: the wind speeds of 1998-2016
    sample_size,        \* bootstrap: the size of the samples
    n_79_97,            \* bootstrap: the sample of the 1979-1997 wind speeds
    n_98_16,            \* bootstrap: the sample of the 1998-2016 wind speeds
    me_79_97,           \* bootstrap: the medians of the 1979-1997 resamples
    me_98_16,           \* bootstrap: the medians of the 1998-2016 resamples
    sample_79_97,       \* bootstrap: the last resample of n_79_97
    sample_98_16,       \* bootstrap: the last resample of n_98_16
    draw,               \* bootstrap: the indices np.random.randint returned last
    calls,              \* the module level: the statements completed so far, in order
    wind_speeds_79_16,  \* the module level: the array getWindSpeedInterval returned
    mytime,             \* readnc: the times of the source files, in hours since the start of the time unit
    month,              \* readnc: the month of each source time
    idates,             \* readnc: the indices of the source times of June to November
    mydtime,            \* readnc: the source times of June to November
    deepu,              \* readnc: the deep layer mean of u at each position
    deepv,              \* readnc: the deep layer mean of v at each position
    heap,               \* removeTCWinds: the array objects, by name of the object
    new_wind_speeds,    \* removeTCWinds: the object the local name new_wind_speeds is bound to
    returned,           \* removeTCWinds: the object the call returned
    annual_means,       \* getAnnualMeans: the seven lists of means, by name (all for the whole season)
    total_sum,          \* getAnnualMeans: the sum of the wind speeds of the season so far
    total_count,        \* getAnnualMeans: their number
    month_sum,          \* getAnnualMeans: the sum of the wind speeds of the month so far
    month_count,        \* getAnnualMeans: their number
    wspd,               \* windbox_final.py: z['wspd'], wspd[iy][ix][t]
    ix,                 \* windbox_final.py: the longitude indices of the coastal points
    iy,                 \* windbox_final.py: the latitude indices of the coastal points
    mydate,             \* windbox_final.py: z['dates']
    ts                  \* windbox_final.py: the time series of the coastal points, ts[n][t]

freqVars == <<wind_speed_freq, freq_in>>
tableVars == <<norm_wind_speed_freq, stagnant_flow, num_stag_flow>>
trackVars == <<locs, dates_and_times, lines, times_to_remove, locs_to_remove, ws_in>>
filterVars == <<region, data_loc, data_ts, temp_locs, temp_wind_speeds>>
regionVars == <<point, selected>>
speedVars == <<new_lines, best_track_speeds, best_track_speeds_79_97, best_track_speeds_98_16>>
avgVars == <<time_interval, avg_wind_speeds, new_dates_and_times>>
bootVars == <<wind_speeds_79_97, wind_speeds_98_16, sample_size, n_79_97, n_98_16, me_79_97, me_98_16, sample_79_97, sample_98_16, draw>>
pipeVars == <<calls, wind_speeds_79_16>>
ingestVars == <<mytime, month, idates, mydtime, deepu, deepv>>
heapVars == <<heap, new_wind_speeds, returned>>
annualVars == <<annual_means, total_sum, total_count, month_sum, month_count>>
windboxVars == <<wspd, ix, iy, mydate, ts>>

vars == <<pc, i, j, wind_speeds, season, freqVars, tableVars, trackVars, filterVars, regionVars, speedVars, avgVars, bootVars, pipeVars, ingestVars, heapVars, annualVars, windboxVars>>

---------------------------------------------------------------------------
(* Bounds of the model *)

\* removeTCWinds: at most MaxFixes fixes in times_to_remove
MaxFixes == 2

\* windbox_final.py: a grid of MaxGrid x MaxGrid points, at most MaxCoast
\* coastal points and MaxDates times
MaxGrid == 2
MaxCoast == 2
MaxDates == 3

\* readnc: source files of at most MaxSteps times
MaxSteps == 4

\* divideBySeason: at most MaxLocs locations, series of at most MaxSeasons
\* whole seasons
MaxLocs == 2
MaxSeasons == 2
\* getFrequencies: arrays of at most MaxSamples samples (locations x times),
\* frequency tables of at most MaxTable buckets
MaxSamples == 4
MaxTable == 4
\* normalizeWindSpeeds, calcNumStagFlow: tables of 1..MaxTable buckets, each
\* holding a count of at most MaxCount
MaxCount == 2
\* readBestTracks, removeTCWinds: at most MaxTrackLocs monitored locations,
\* MaxTimes archive times and MaxLines lines in the best track file
MaxTrackLocs == 2
MaxTimes == 2
MaxLines == 2
\* the startup filter: at most MaxDataLocs locations in the data file
MaxDataLocs == 3
\* getBestTrackSpeeds: at most MaxFileLines lines in the best track file
MaxFileLines == 4
\* the bootstrap: at most MaxPop wind speeds that are not NaN in a period
MaxPop == 10

---------------------------------------------------------------------------
(* Values *)

\* Python's None, the placeholder of divideBySeason's [[None]] * len(...)
None == -1
\* float('nan'): a value that is no wind speed
NaN == -1000000

\* np.isnan(x)
IsNaN(x) == x = NaN

\* abs(x): NaN stays NaN
Abs(x) == IF IsNaN(x) THEN NaN ELSE IF x < 0 THEN -x ELSE x

RECURSIVE SumSeq(_)
SumSeq(s) == IF s = <<>> THEN 0 ELSE Head(s) + SumSeq(Tail(s))

\* the variables of the functions that a specification does not run
FreqIdle == wind_speed_freq = <<>> /\ freq_in = <<>>
TableIdle == norm_wind_speed_freq = <<>> /\ stagnant_flow = 0 /\ num_stag_flow = 0
TrackIdle ==
    /\ locs = <<>>
    /\ dates_and_times = <<>>
    /\ lines = <<>>
    /\ times_to_remove = <<>>
    /\ locs_to_remove = <<>>
    /\ ws_in = <<>>

FilterIdle ==
    /\ region = ""
    /\ data_loc = <<>>
    /\ data_ts = <<>>
    /\ temp_locs = <<>>
    /\ temp_wind_speeds = <<>>

RegionIdle ==
    /\ point = <<>>
    /\ selected = {}

SpeedIdle ==
    /\ new_lines = <<>>
    /\ best_track_speeds = <<>>
    /\ best_track_speeds_79_97 = <<>>
    /\ best_track_speeds_98_16 = <<>>

AvgIdle ==
    /\ time_interval = 0
    /\ avg_wind_speeds = <<>>
    /\ new_dates_and_times = <<>>

BootIdle ==
    /\ wind_speeds_79_97 = <<>>
    /\ wind_speeds_98_16 = <<>>
    /\ sample_size = 0
    /\ n_79_97 = <<>>
    /\ n_98_16 = <<>>
    /\ me_79_97 = <<>>
    /\ me_98_16 = <<>>
    /\ sample_79_97 = <<>>
    /\ sample_98_16 = <<>>
    /\ draw = <<>>

PipeIdle ==
    /\ calls = <<>>
    /\ wind_speeds_79_16 = <<>>

IngestIdle ==
    /\ mytime = <<>>
    /\ month = <<>>
    /\ idates = <<>>
    /\ mydtime = <<>>
    /\ deepu = <<>>
    /\ deepv = <<>>

HeapIdle ==
    /\ heap = <<>>
    /\ new_wind_speeds = None
    /\ returned = None

AnnualIdle ==
    /\ annual_means = <<>>
    /\ total_sum = 0
    /\ total_count = 0
    /\ month_sum = 0
    /\ month_count = 0

WindboxIdle ==
    /\ wspd = <<>>
    /\ ix = <<>>
    /\ iy = <<>>
    /\ mydate = <<>>
    /\ ts = <<>>

---------------------------------------------------------------------------
(* divideBySeason *)

\* samples per hurricane season (May 30 0000Z .. November 28 1800Z, 6-hourly)
SeasonLen == 732
\* first season offset after June, July, August, September, October
JuneEnd == 128
JulyEnd == 252
AugEnd == 376
SepEnd == 496
OctEnd == 620

\* the tests of the if / elif / else chain of divideBySeason on an index jj
IsEHSMut(jj) == (jj % SeasonLen) <= JulyEnd
IsEHS(jj) == (jj % SeasonLen) < JulyEnd
IsJune(jj) == (jj % SeasonLen) < JuneEnd
IsLHS(jj) == (jj % SeasonLen) >= SepEnd
IsOct(jj) == (jj % SeasonLen) < OctEnd
IsAug(jj) == (jj % SeasonLen) < AugEnd

BucketNames ==
    {"EHS", "MHS", "MHS_v2", "LHS", "LHS_v2",
     "June", "July", "Aug", "Sep", "Oct", "Nov"}

\* wind_speeds_X = [[None]] * len(wind_speeds), for each of the eleven arrays
SeasonInit(ws) == [b \in BucketNames |-> [l \in 1..Len(ws) |-> <<None>>]]

\* if arr[i] == [None]: arr[i] = [x]  else: arr[i].append(x)
Put(arr, l, x) ==
    IF arr[l] = <<None>> THEN [arr EXCEPT ![l] = <<x>>]
                         ELSE [arr EXCEPT ![l] = Append(@, x)]

\* the arrays that the body of the inner loop appends wind_speeds[i][j] to
BucketsOf(jj) ==
    IF IsEHS(jj)
    THEN {"EHS"} \cup (IF IsJune(jj) THEN {"June"} ELSE {"July", "MHS_v2"})
    ELSE IF IsLHS(jj)
    THEN {"LHS"} \cup (IF IsOct(jj) THEN {"Oct", "LHS_v2"} ELSE {"Nov"})
    ELSE {"MHS"} \cup (IF IsAug(jj) THEN {"Aug", "MHS_v2"} ELSE {"Sep", "LHS_v2"})

\* one pass of the inner loop body for location l (1-based) and index jj
SeasonPut(se, ws, l, jj) ==
    [b \in BucketNames |->
        IF b \in BucketsOf(jj) THEN Put(se[b], l, ws[l][jj + 1]) ELSE se[b]]

\* A synthetic input: nl locations, n samples each, every sample tagged with
\* a value of its own (location l, index jj: (l - 1) * n + jj).
TaggedInput(nl, n) == [l \in 1..nl |-> [t \in 1..n |-> (l - 1) * n + (t - 1)]]

\* the series lengths tried: the short ones, and whole seasons
SeriesLens ==
    {1, JuneEnd, JulyEnd, SepEnd, SepEnd + 1}
        \cup {s * SeasonLen : s \in 1..MaxSeasons}

SeasonStart ==
    /\ \E nl \in 1..MaxLocs, n \in SeriesLens : wind_speeds = TaggedInput(nl, n)
    /\ season = SeasonInit(wind_speeds)
    /\ i = 0
    /\ j = 0
    /\ pc = "divideBySeason"
    /\ FreqIdle
    /\ TableIdle
    /\ TrackIdle
    /\ FilterIdle
    /\ RegionIdle
    /\ SpeedIdle
    /\ AvgIdle
    /\ BootIdle
    /\ PipeIdle
    /\ IngestIdle
    /\ HeapIdle
    /\ AnnualIdle
    /\ WindboxIdle

\* while j < len(wind_speeds[i]): ... j = j + 1
DivideSample ==
    /\ pc = "divideBySeason"
    /\ i < Len(wind_speeds)
    /\ j < Len(wind_speeds[i + 1])
    /\ season' = SeasonPut(season, wind_speeds, i + 1, j)
    /\ j' = j + 1
    /\ UNCHANGED <<pc, i, wind_speeds, freqVars, tableVars, trackVars, filterVars, regionVars, speedVars, avgVars, bootVars, pipeVars, ingestVars, heapVars, annualVars, windboxVars>>

\* the inner loop ends: i = i + 1, and j = 0 at the top of the outer loop
DivideNextLoc ==
    /\ pc = "divideBySeason"
    /\ i < Len(wind_speeds)
    /\ j >= Len(wind_speeds[i + 1])
    /\ i' = i + 1
    /\ j' = 0
    /\ UNCHANGED <<pc, wind_speeds, season, freqVars, tableVars, trackVars, filterVars, regionVars, speedVars, avgVars, bootVars, pipeVars, ingestVars, heapVars, annualVars, windboxVars>>

\* the outer loop ends: return the eleven arrays
DivideReturn ==
    /\ pc = "divideBySeason"
    /\ i >= Len(wind_speeds)
    /\ pc' = "divided"
    /\ UNCHANGED <<i, j, wind_speeds, season, freqVars, tableVars, trackVars, filterVars, regionVars, speedVars, avgVars, bootVars, pipeVars, ingestVars, heapVars, annualVars, windboxVars>>

NextSeason == DivideSample \/ DivideNextLoc \/ DivideReturn

SpecSeason == SeasonStart /\ [][NextSeason]_vars

---------------------------------------------------------------------------
(* Claims about divideBySeason *)

Range(s) == {s[x] : x \in DOMAIN s}

\* the samples of a returned array, without the [None] placeholder
Samples(arr) == SelectSeq(arr, LAMBDA x : x # None)

\* the index of a tagged sample x of location l (1-based)
IndexOfTag(l, x) == x - (l - 1) * Len(wind_speeds[l])

\* the samples of location l whose season offset is in [lo, hi), in time order
OffsetRange(l, lo, hi) ==
    SelectSeq(wind_speeds[l],
              LAMBDA x : /\ lo <= IndexOfTag(l, x) % SeasonLen
                         /\ IndexOfTag(l, x) % SeasonLen < hi)

Months == {"June", "July", "Aug", "Sep", "Oct", "Nov"}
Thirds == {"EHS", "MHS", "LHS"}

\* C1 (as claimed): when divideBySeason returns, for every location the lengths
\* of EHS, MHS and LHS add up to the length of the series, every sample of the
\* series is in exactly one of the three, and the three hold nothing else.
C1_PartitionComplete ==
    pc = "divided" =>
        \A l \in 1..Len(wind_speeds) :
            /\ Len(season["EHS"][l]) + Len(season["MHS"][l]) + Len(season["LHS"][l])
                   = Len(wind_speeds[l])
            /\ \A x \in Range(wind_speeds[l]) :
                   Cardinality({b \in Thirds : x \in Range(season[b][l])}) = 1
            /\ \A b \in Thirds : Range(season[b][l]) \subseteq Range(wind_speeds[l])

\* C2: when divideBySeason returns, for every location each month array and
\* each of EHS, MHS, LHS holds exactly the samples whose offset j mod 732 is
\* in the array's range of the fixed breakpoints, in time order; every sample
\* is in exactly one month array; indices j and j + 732 are in the same arrays.
C2_Breakpoints ==
    pc = "divided" =>
        \A l \in 1..Len(wind_speeds) :
            /\ Samples(season["June"][l]) = OffsetRange(l, 0, 128)
            /\ Samples(season["July"][l]) = OffsetRange(l, 128, 252)
            /\ Samples(season["Aug"][l]) = OffsetRange(l, 252, 376)
            /\ Samples(season["Sep"][l]) = OffsetRange(l, 376, 496)
            /\ Samples(season["Oct"][l]) = OffsetRange(l, 496, 620)
            /\ Samples(season["Nov"][l]) = OffsetRange(l, 620, 732)
            /\ Samples(season["EHS"][l]) = OffsetRange(l, 0, 252)
            /\ Samples(season["MHS"][l]) = OffsetRange(l, 252, 496)
            /\ Samples(season["LHS"][l]) = OffsetRange(l, 496, 732)
            /\ \A x \in Range(wind_speeds[l]) :
                   Cardinality({b \in Months : x \in Range(season[b][l])}) = 1
            /\ \A t \in 1..(Len(wind_speeds[l]) - 732) : \A b \in Months \cup Thirds :
                   wind_speeds[l][t] \in Range(season[b][l])
                       <=> wind_speeds[l][t + 732] \in Range(season[b][l])

\* two locations and two whole seasons have been divided: index 127 and
\* index 127 + 732 of the second location are both the last of their June
C2_Witness ==
    /\ pc = "divided"
    /\ Len(wind_speeds) = 2
    /\ Len(wind_speeds[2]) = 1464
    /\ season["June"][2][128] = wind_speeds[2][128]
    /\ season["June"][2][256] = wind_speeds[2][128 + 732]
    /\ Len(season["June"][2]) = 256

---------------------------------------------------------------------------
(* getFrequencies *)

\* max_wind_speed = 45: the length of every frequency table of the program
max_wind_speed == 45

\* int(math.floor(abs(wind_speed))), for a wind speed in tenths of a m/s
FloorAbs(x) == Abs(x) \div 10

\* the body of getFrequencies' inner loop with high wind speeds clipped into
\* the last bucket instead of disregarded
AccumulateClip(table, ws) ==
    IF IsNaN(ws) THEN table
    ELSE IF FloorAbs(ws) < Len(table)
         THEN [table EXCEPT ![FloorAbs(ws) + 1] = @ + 1]
         ELSE [table EXCEPT ![Len(table)] = @ + 1]

\* the body of getFrequencies' inner loop with a NaN counted as a calm wind
AccumulateNaNAsZero(table, ws) ==
    IF IsNaN(ws) THEN [table EXCEPT ![1] = @ + 1]
    ELSE IF FloorAbs(ws) < Len(table)
         THEN [table EXCEPT ![FloorAbs(ws) + 1] = @ + 1]
         ELSE table

\* the body of getFrequencies' inner loop for the sample ws
Accumulate(table, ws) ==
    IF ~IsNaN(ws)
    THEN IF FloorAbs(ws) < Len(table)
         THEN [table EXCEPT ![FloorAbs(ws) + 1] = @ + 1]
         ELSE table
    ELSE table

\* the sample values tried: NaN, -3.7, 1.2 and 46.0 m/s
SampleValues == {NaN, -37, 12, 460}

\* the arrays tried: nl locations of n samples each, nl * n <= MaxSamples
Shapes == {sh \in (1..MaxSamples) \X (0..MaxSamples) : sh[1] * sh[2] <= MaxSamples}
SampleArrays == UNION {[1..sh[1] -> [1..sh[2] -> SampleValues]] : sh \in Shapes}

\* the tables tried: all zero (as the program passes them), or bucket b
\* already holding b + 1 counts
ZeroTable(n) == [b \in 1..n |-> 0]
RampTable(n) == [b \in 1..n |-> b]

\* the scenario of two locations and two seasons of 3.7 m/s
ScenarioArray == [l \in 1..2 |-> [t \in 1..(2 * SeasonLen) |-> 37]]

FreqStart ==
    /\ \/ /\ wind_speeds \in SampleArrays
          /\ \E n \in 1..MaxTable : wind_speed_freq \in {ZeroTable(n), RampTable(n)}
       \/ /\ wind_speeds = ScenarioArray
          /\ wind_speed_freq = ZeroTable(max_wind_speed)
    /\ freq_in = wind_speed_freq
    /\ i = 0
    /\ j = 0
    /\ pc = "getFrequencies"
    /\ season = <<>>
    /\ TableIdle
    /\ TrackIdle
    /\ FilterIdle
    /\ RegionIdle
    /\ SpeedIdle
    /\ AvgIdle
    /\ BootIdle
    /\ PipeIdle
    /\ IngestIdle
    /\ HeapIdle
    /\ AnnualIdle
    /\ WindboxIdle

\* for wind_speed in loc: ...
FreqSample ==
    /\ pc = "getFrequencies"
    /\ i < Len(wind_speeds)
    /\ j < Len(wind_speeds[i + 1])
    /\ wind_speed_freq' = Accumulate(wind_speed_freq, wind_speeds[i + 1][j + 1])
    /\ j' = j + 1
    /\ UNCHANGED <<pc, i, wind_speeds, season, freq_in, tableVars, trackVars, filterVars, regionVars, speedVars, avgVars, bootVars, pipeVars, ingestVars, heapVars, annualVars, windboxVars>>

\* for loc in wind_speeds: the next location
FreqNextLoc ==
    /\ pc = "getFrequencies"
    /\ i < Len(wind_speeds)
    /\ j >= Len(wind_speeds[i + 1])
    /\ i' = i + 1
    /\ j' = 0
    /\ UNCHANGED <<pc, wind_speeds, season, freqVars, tableVars, trackVars, filterVars, regionVars, speedVars, avgVars, bootVars, pipeVars, ingestVars, heapVars, annualVars, windboxVars>>

\* the loops end: the function returns nothing
FreqReturn ==
    /\ pc = "getFrequencies"
    /\ i >= Len(wind_speeds)
    /\ pc' = "counted"
    /\ UNCHANGED <<i, j, wind_speeds, season, freqVars, tableVars, trackVars, filterVars, regionVars, speedVars, avgVars, bootVars, pipeVars, ingestVars, heapVars, annualVars, windboxVars>>

NextFreq == FreqSample \/ FreqNextLoc \/ FreqReturn

SpecFreq == FreqStart /\ [][NextFreq]_vars

---------------------------------------------------------------------------
(* Claims about getFrequencies *)

\* all samples of an array, location after location
RECURSIVE Flatten(_)
Flatten(a) == IF a = <<>> THEN <<>> ELSE Head(a) \o Flatten(Tail(a))

\* the number of samples of an array that satisfy Test
Count(a, Test(_)) == Len(SelectSeq(Flatten(a), Test))

\* floor(|x|) of a wind speed in tenths of a m/s, by its definition: the
\* integer b with b <= |x| / 10 < b + 1
FloorOfMagnitude(x) ==
    CHOOSE b \in 0..(max_wind_speed + 1) :
        /\ 10 * b <= (IF x < 0 THEN -x ELSE x)
        /\ (IF x < 0 THEN -x ELSE x) < 10 * (b + 1)

\* C3: every step of getFrequencies that takes a sample s leaves the table
\* unchanged when s is NaN, adds exactly 1 to bucket floor(|s|) and changes no
\* other bucket when floor(|s|) < len(table), and leaves the table unchanged
\* (no error, no clipping) when floor(|s|) >= len(table); two locations of
\* 1464 samples of 3.7 m/s end with 2928 in bucket 3 and 0 elsewhere.
C3_StepRule ==
    (pc = "getFrequencies" /\ i < Len(wind_speeds) /\ j < Len(wind_speeds[i + 1])) =>
        LET s == wind_speeds[i + 1][j + 1] IN
        /\ pc' = "getFrequencies"
        /\ Len(wind_speed_freq') = Len(wind_speed_freq)
        /\ s = NaN => wind_speed_freq' = wind_speed_freq
        /\ (s # NaN /\ FloorOfMagnitude(s) < Len(wind_speed_freq)) =>
               \A b \in 1..Len(wind_speed_freq) :
                   wind_speed_freq'[b] =
                       wind_speed_freq[b] + (IF b = FloorOfMagnitude(s) + 1 THEN 1 ELSE 0)
        /\ (s # NaN /\ FloorOfMagnitude(s) >= Len(wind_speed_freq)) =>
               wind_speed_freq' = wind_speed_freq

C3_Scenario ==
    (pc = "counted" /\ wind_speeds = ScenarioArray) =>
        \A b \in 1..Len(wind_speed_freq) :
            wind_speed_freq[b] = (IF b = 4 THEN 2928 ELSE 0)

C3_BucketRule == [][C3_StepRule]_vars /\ []C3_Scenario

\* an array with a NaN, a negative and a too high sample has been counted into
\* a table of two buckets that held counts before
C3_Witness ==
    /\ pc = "counted"
    /\ wind_speeds = <<<<NaN, -37>>, <<12, 460>>>>
    /\ freq_in = <<1, 2>>
    /\ wind_speed_freq = <<1, 3>>

\* C4 (as claimed): getFrequencies on an all-zero table and n samples of which
\* m are NaN ends with the bucket counts summing to n - m.
C4_SumIsNonMissing ==
    (pc = "counted" /\ freq_in = ZeroTable(Len(freq_in))) =>
        SumSeq(wind_speed_freq) = Count(wind_speeds, LAMBDA x : x # NaN)

\* C4 (amended): getFrequencies on n samples of which m are NaN and d are not
\* NaN but have floor(|s|) >= len(table) raises the sum of the bucket counts by
\* exactly n - m - d.
C4_SumIsCounted ==
    pc = "counted" =>
        SumSeq(wind_speed_freq) - SumSeq(freq_in) =
            Count(wind_speeds, LAMBDA x : TRUE)
                - Count(wind_speeds, LAMBDA x : x = NaN)
                - Count(wind_speeds,
                        LAMBDA x : x # NaN /\ FloorOfMagnitude(x) >= Len(freq_in))

\* four samples, one NaN and one too high for the table, have been counted
\* into an all-zero table: the sum is 2
C4_Witness ==
    /\ pc = "counted"
    /\ wind_speeds = <<<<NaN, -37>>, <<12, 460>>>>
    /\ freq_in = <<0, 0, 0, 0>>
    /\ SumSeq(wind_speed_freq) = 2

---------------------------------------------------------------------------
(* normalizeWindSpeeds and calcNumStagFlow *)

\* np.sum(np.absolute(wind_speed_freq))
SumAbs(table) == SumSeq([b \in 1..Len(table) |-> Abs(table[b])])

\* float(freq)/float(sum_freq) with numpy's division: 0.0/0.0 is nan (0 over
\* 0 here) and nothing is raised
DivisionRaisesNever(table) == FALSE

\* float(freq)/float(sum_freq) divides two Python floats: a zero sum_freq
\* raises ZeroDivisionError in the first pass of the loop
DivisionRaises(table) == Len(table) > 0 /\ SumAbs(table) = 0

\* the list normalizeWindSpeeds builds without the factor 100
NormalizedAsFraction(table) ==
    [b \in 1..Len(table) |-> [num |-> table[b], den |-> SumAbs(table)]]

\* the list normalizeWindSpeeds builds: 100 * (freq / sum_freq) for each
\* bucket, as the rational number num / den
Normalized(table) ==
    [b \in 1..Len(table) |-> [num |-> 100 * table[b], den |-> SumAbs(table)]]

\* the loop of calcNumStagFlow from index ii with num_stag_flow = num:
\* while i < stagnant_flow: num_stag_flow = num_stag_flow + wind_speed_freq[i]
RECURSIVE StagLoop(_, _, _, _)
StagLoop(table, k, ii, num) ==
    IF ii < k
    THEN StagLoop(table, k, ii + 1, num + table[ii + 1])
    ELSE num

\* wind_speed_freq[i] with i = len(wind_speed_freq) raises IndexError: the
\* loop reaches it when the threshold is above the length of the table
StagRaises(table, k) == k > Len(table)

\* the frequency tables tried
CountTables == UNION {[1..n -> 0..MaxCount] : n \in 1..MaxTable}

TableStart ==
    /\ wind_speed_freq \in CountTables
    /\ freq_in = wind_speed_freq
    /\ stagnant_flow \in 0..(Len(wind_speed_freq) + 1)
    /\ norm_wind_speed_freq = <<>>
    /\ num_stag_flow = 0
    /\ pc = "call"
    /\ i = 0
    /\ j = 0
    /\ wind_speeds = <<>>
    /\ season = <<>>
    /\ TrackIdle
    /\ FilterIdle
    /\ RegionIdle
    /\ SpeedIdle
    /\ AvgIdle
    /\ BootIdle
    /\ PipeIdle
    /\ IngestIdle
    /\ HeapIdle
    /\ AnnualIdle
    /\ WindboxIdle

\* normalizeWindSpeeds(wind_speed_freq)
NormalizeWindSpeeds ==
    /\ pc = "call"
    /\ IF DivisionRaises(wind_speed_freq)
       THEN /\ pc' = "ZeroDivisionError"
            /\ UNCHANGED norm_wind_speed_freq
       ELSE /\ pc' = "normalized"
            /\ norm_wind_speed_freq' = Normalized(wind_speed_freq)
    /\ UNCHANGED <<i, j, wind_speeds, season, freqVars, stagnant_flow, num_stag_flow,
                   trackVars, filterVars, regionVars, speedVars, avgVars, bootVars, pipeVars, ingestVars, heapVars, annualVars, windboxVars>>

\* calcNumStagFlow(wind_speed_freq, stagnant_flow)
CalcNumStagFlow ==
    /\ pc = "call"
    /\ IF StagRaises(wind_speed_freq, stagnant_flow)
       THEN /\ pc' = "IndexError"
            /\ UNCHANGED num_stag_flow
       ELSE /\ pc' = "stagnant"
            /\ num_stag_flow' = StagLoop(wind_speed_freq, stagnant_flow, 0, 0)
    /\ UNCHANGED <<i, j, wind_speeds, season, freqVars, stagnant_flow,
                   norm_wind_speed_freq, trackVars, filterVars, regionVars, speedVars, avgVars, bootVars, pipeVars, ingestVars, heapVars, annualVars, windboxVars>>

NextTable == NormalizeWindSpeeds \/ CalcNumStagFlow

SpecTable == TableStart /\ [][NextTable]_vars

---------------------------------------------------------------------------
(* Claims about normalizeWindSpeeds and calcNumStagFlow *)

\* rational numbers num / den
RatEq(a, b) == a.den # 0 /\ b.den # 0 /\ a.num * b.den = b.num * a.den
RatAdd(a, b) == [num |-> a.num * b.den + b.num * a.den, den |-> a.den * b.den]

RECURSIVE RatSum(_)
RatSum(s) == IF s = <<>> THEN [num |-> 0, den |-> 1]
             ELSE RatAdd(Head(s), RatSum(Tail(s)))

\* C7: normalizeWindSpeeds on a table whose counts are all zero ends in
\* ZeroDivisionError and returns no list.
C7_ZeroSumRaises ==
    (pc \in {"normalized", "ZeroDivisionError"} /\ SumSeq(wind_speed_freq) = 0) =>
        /\ pc = "ZeroDivisionError"
        /\ norm_wind_speed_freq = <<>>

\* normalizeWindSpeeds has been called on a table of three zero counts
C7_Witness ==
    /\ pc = "ZeroDivisionError"
    /\ wind_speed_freq = <<0, 0, 0>>

\* C8: for a table with sum > 0 normalizeWindSpeeds returns a list of the same
\* length whose entry b is 100 * table[b] / sum |table|, the entries sum to
\* 100 (as rational numbers), and the table is as it was passed in.
C8_Normalized ==
    (pc \in {"normalized", "ZeroDivisionError"} /\ SumSeq(wind_speed_freq) > 0) =>
        /\ pc = "normalized"
        /\ Len(norm_wind_speed_freq) = Len(wind_speed_freq)
        /\ \A b \in 1..Len(wind_speed_freq) :
               RatEq(norm_wind_speed_freq[b],
                     [num |-> 100 * wind_speed_freq[b],
                      den |-> SumSeq([x \in 1..Len(wind_speed_freq) |->
                                         IF wind_speed_freq[x] < 0
                                         THEN -wind_speed_freq[x]
                                         ELSE wind_speed_freq[x]])])
        /\ RatEq(RatSum(norm_wind_speed_freq), [num |-> 100, den |-> 1])
        /\ wind_speed_freq = freq_in

\* the table [1, 0, 2] has been normalized: bucket 3 holds 200/3 percent
C8_Witness ==
    /\ pc = "normalized"
    /\ wind_speed_freq = <<1, 0, 2>>
    /\ RatEq(norm_wind_speed_freq[3], [num |-> 200, den |-> 3])

\* the sum of table[0..k-1], for k <= len(table)
RECURSIVE SumFirst(_, _)
SumFirst(table, k) == IF k = 0 THEN 0 ELSE SumFirst(table, k - 1) + table[k]

\* C9 (as claimed): calcNumStagFlow(table, k) returns the sum of table[0..k-1]
\* for every k >= 0, k >= len(table) included, calcNumStagFlow(table, k + 1)
\* returns a count that is not smaller, and calcNumStagFlow(table, 0) is 0.
C9_StagMonotone ==
    pc \in {"stagnant", "IndexError"} =>
        LET k == stagnant_flow
            len == Len(wind_speed_freq) IN
        /\ pc = "stagnant"
        /\ num_stag_flow = SumFirst(wind_speed_freq, IF k < len THEN k ELSE len)
        /\ ~StagRaises(wind_speed_freq, k + 1)
        /\ num_stag_flow <= StagLoop(wind_speed_freq, k + 1, 0, 0)
        /\ k = 0 => num_stag_flow = 0

---------------------------------------------------------------------------
(* readBestTracks and removeTCWinds *)

(* A line of the best track file is the record of the fields the program
   slices out of it: al (line[0:2] == 'AL', a storm header), year
   (line[0:4]), month (line[4:6]), day (line[6:8]), hhmm (line[10:14]),
   status (line[19:21]), lat (line[23:27]) and lon (line[30:35], degrees
   west) in hundredths of a degree, radii (the four wind radii, line[49:53]
   .. line[67:71], in nautical miles).  A datetime is the tuple
   <<year, month, day, hour, minute>>.                                      *)

\* Data had to have been taken between May 30 and November 28
InSeason(line) ==
    \/ (line.month > 5 /\ line.month < 11)
    \/ (line.month = 5 /\ line.day >= 30)
    \/ (line.month = 11 /\ line.day <= 28)

\* Only take times at 0000Z, 0600Z, 1200Z, and 1800Z
Synoptic(line) == line.hhmm \in {0, 600, 1200, 1800}

\* Only consider tropical storms and hurricanes
IsTSorHU(line) == line.status = "TS" \/ line.status = "HU"

\* the tropical cyclone is not too far away from the region of interest
NearRegion(line) ==
    line.lat < 3800 /\ line.lat > 2000 /\ line.lon < 10500 /\ line.lon > 7200

Max(S) == CHOOSE x \in S : \A y \in S : y <= x

\* 60 * deg_radius with the floor of a tropical storm for every status
Radius60FloorOfTS(line) == Max({60 * 6} \cup Range(line.radii))

\* 60 * deg_radius: max(60 * 8, radii) for a hurricane, max(60 * 6, radii)
\* for a tropical storm
Radius60(line) ==
    IF line.status = "HU"
    THEN Max({60 * 8} \cup Range(line.radii))
    ELSE Max({60 * 6} \cup Range(line.radii))

\* eye_loc = [float(line[30:35]) * -1, float(line[23:27])]
EyeLoc(line) == <<-line.lon, line.lat>>

\* abs(loc[0] - eye_loc[0]) <= deg_radius and abs(loc[1] - eye_loc[1]) <= deg_radius
\* (both sides times 60 * 100: coordinates are in hundredths of a degree)
InRadius(loc, line) ==
    /\ Abs(loc[1] - EyeLoc(line)[1]) * 60 <= Radius60(line) * 100
    /\ Abs(loc[2] - EyeLoc(line)[2]) * 60 <= Radius60(line) * 100

\* locs_in_range: the rows of locs in the radius, in the order of locs
LocsInRange(ls, line) == SelectSeq(ls, LAMBDA loc : InRadius(loc, line))

\* datetime.strptime(line[0:14], '%Y%m%d, %H%M')
LineTime(line) == <<line.year, line.month, line.day, line.hhmm \div 100, line.hhmm % 100>>

\* the line passes the four filters and a location is in its radius
Removes(ls, line) ==
    /\ InSeason(line)
    /\ Synoptic(line)
    /\ IsTSorHU(line)
    /\ NearRegion(line)
    /\ LocsInRange(ls, line) # <<>>

\* readBestTracks: <<times_to_remove, locs_to_remove>> of the lines fl
RECURSIVE ReadBestTracks(_, _)
ReadBestTracks(fl, ls) ==
    IF fl = <<>> THEN <<(<<>>), (<<>>)>>
    ELSE LET rest == ReadBestTracks(Tail(fl), ls) IN
         IF Removes(ls, Head(fl))
         THEN << <<LineTime(Head(fl))>> \o rest[1],
                 <<LocsInRange(ls, Head(fl))>> \o rest[2] >>
         ELSE rest

\* the index k the inner while loop of removeTCWinds stops at: the first row
\* of locs equal to loc, len(locs) when there is none (0-based)
LocIndex(loc, ls) ==
    IF \E k \in 1..Len(ls) : ls[k] = loc
    THEN (CHOOSE k \in 1..Len(ls) : ls[k] = loc /\ \A m \in 1..(k - 1) : ls[m] # loc) - 1
    ELSE Len(ls)

\* dates_and_times.index(t) reading 0 when the list has no such element
TimeIndexOrFirst(t, dts) ==
    IF \E k \in 1..Len(dts) : dts[k] = t
    THEN (CHOOSE k \in 1..Len(dts) : dts[k] = t /\ \A m \in 1..(k - 1) : dts[m] # t) - 1
    ELSE 0

\* dates_and_times.index(t) (0-based); the list has no such element: -1
TimeIndex(t, dts) ==
    IF \E k \in 1..Len(dts) : dts[k] = t
    THEN (CHOOSE k \in 1..Len(dts) : dts[k] = t /\ \A m \in 1..(k - 1) : dts[m] # t) - 1
    ELSE -1

\* the test of removeTCWinds' outer loop with the last index included
MoreTimesInclusive(ii, times) == ii <= Len(times)

\* while i < len(times_to_remove)
MoreTimes(ii, times) == ii < Len(times)

\* the archive time of column t (0-based): 6-hourly from May 30 1979 0000Z
ArchiveTime(t) == <<1979, 5, 30 + (t \div 4), 6 * (t % 4), 0>>

\* the fixes tried, all with the eye at 28.0N 90.0W unless said otherwise
Fix(year, mm, day, hhmm, status, lat, radii) ==
    [al |-> FALSE, year |-> year, month |-> mm, day |-> day, hhmm |-> hhmm,
     status |-> status, lat |-> lat, lon |-> 9000, radii |-> radii]

NoRadii == <<0, 0, 0, 0>>

LineChoices ==
    { Fix(1979, 5, 30, 0, "TS", 2800, NoRadii),
      Fix(1979, 5, 30, 600, "HU", 2800, NoRadii),
      Fix(1979, 5, 30, 600, "TS", 2800, <<450, 30, 0, -999>>),
      Fix(1979, 5, 30, 300, "TS", 2800, NoRadii),
      Fix(1979, 5, 30, 0, "TD", 2800, NoRadii),
      Fix(1979, 4, 15, 0, "TS", 2800, NoRadii),
      Fix(1979, 5, 30, 0, "TS", 4000, NoRadii),
      Fix(1978, 9, 1, 0, "TS", 2800, NoRadii),
      \* the header AL011979: line[4:6] is "19", line[6:8] is "79"
      [al |-> TRUE, year |-> 0, month |-> 19, day |-> 79, hhmm |-> 0,
       status |-> "", lat |-> 0, lon |-> 0, radii |-> NoRadii] }

\* the locations tried: 0.5, 7.5 and 14.25 degrees from the eye
LocChoices == {<<-9000, 2850>>, <<-8250, 2850>>, <<-7575, 3300>>}

\* wind speeds with a value of their own at every location and time, without
\* and with a sample that is NaN before the filter runs
TaggedWinds(nl, nt) == [l \in 1..nl |-> [t \in 1..nt |-> 10 * l + t]]
WindChoices(nl, nt) ==
    {TaggedWinds(nl, nt), [TaggedWinds(nl, nt) EXCEPT ![1][1] = NaN]}

TrackStart ==
    /\ \E nl \in 1..MaxTrackLocs : locs \in [1..nl -> LocChoices]
    /\ \E n \in 0..MaxLines : lines \in [1..n -> LineChoices]
    /\ dates_and_times = [t \in 1..MaxTimes |-> ArchiveTime(t - 1)]
    /\ wind_speeds \in WindChoices(Len(locs), MaxTimes)
    /\ ws_in = wind_speeds
    /\ times_to_remove = <<>>
    /\ locs_to_remove = <<>>
    /\ i = 0
    /\ j = 0
    /\ pc = "readBestTracks"
    /\ season = <<>>
    /\ FreqIdle
    /\ TableIdle
    /\ FilterIdle
    /\ RegionIdle
    /\ SpeedIdle
    /\ AvgIdle
    /\ BootIdle
    /\ PipeIdle
    /\ IngestIdle
    /\ HeapIdle
    /\ AnnualIdle
    /\ WindboxIdle

\* times_to_remove, locs_to_remove = readBestTracks('best_tracks.txt', locs)
ReadTracks ==
    /\ pc = "readBestTracks"
    /\ times_to_remove' = ReadBestTracks(lines, locs)[1]
    /\ locs_to_remove' = ReadBestTracks(lines, locs)[2]
    /\ pc' = "removeTCWinds"
    /\ UNCHANGED <<i, j, wind_speeds, season, freqVars, tableVars,
                   locs, dates_and_times, lines, ws_in, filterVars, regionVars, speedVars, avgVars, bootVars, pipeVars, ingestVars, heapVars, annualVars, windboxVars>>

\* the body of the inner loop of removeTCWinds: find k, set the sample to NaN
RemoveSample ==
    /\ pc = "removeTCWinds"
    /\ MoreTimes(i, times_to_remove)
    /\ i < Len(locs_to_remove)
    /\ j < Len(locs_to_remove[i + 1])
    /\ LET k == LocIndex(locs_to_remove[i + 1][j + 1], locs)
           t == TimeIndex(times_to_remove[i + 1], dates_and_times)
       IN  IF k >= Len(wind_speeds)
           THEN pc' = "IndexError" /\ UNCHANGED <<j, wind_speeds>>
           ELSE IF t < 0
           THEN pc' = "ValueError" /\ UNCHANGED <<j, wind_speeds>>
           ELSE /\ wind_speeds' = [wind_speeds EXCEPT ![k + 1][t + 1] = NaN]
                /\ j' = j + 1
                /\ UNCHANGED pc
    /\ UNCHANGED <<i, season, freqVars, tableVars,
                   locs, dates_and_times, lines, times_to_remove, locs_to_remove, ws_in, filterVars, regionVars, speedVars, avgVars, bootVars, pipeVars, ingestVars, heapVars, annualVars, windboxVars>>

\* the inner loop ends (j = 0 at the top of the outer loop, i = i + 1 at its
\* end); locs_to_remove[i] of an index past the list raises IndexError
RemoveNextTime ==
    /\ pc = "removeTCWinds"
    /\ MoreTimes(i, times_to_remove)
    /\ IF i < Len(locs_to_remove)
       THEN /\ j >= Len(locs_to_remove[i + 1])
            /\ i' = i + 1
            /\ j' = 0
            /\ UNCHANGED pc
       ELSE /\ pc' = "IndexError"
            /\ UNCHANGED <<i, j>>
    /\ UNCHANGED <<wind_speeds, season, freqVars, tableVars, trackVars, filterVars, regionVars, speedVars, avgVars, bootVars, pipeVars, ingestVars, heapVars, annualVars, windboxVars>>

\* the outer loop ends: return new_wind_speeds
RemoveReturn ==
    /\ pc = "removeTCWinds"
    /\ ~MoreTimes(i, times_to_remove)
    /\ pc' = "removed"
    /\ UNCHANGED <<i, j, wind_speeds, season, freqVars, tableVars, trackVars, filterVars, regionVars, speedVars, avgVars, bootVars, pipeVars, ingestVars, heapVars, annualVars, windboxVars>>

NextTrack == ReadTracks \/ RemoveSample \/ RemoveNextTime \/ RemoveReturn

SpecTrack == TrackStart /\ [][NextTrack]_vars

---------------------------------------------------------------------------
(* Claims about removeTCWinds *)

\* C5 (as claimed): when removeTCWinds returns, the sample of location l at
\* time t is NaN if a fix of times_to_remove has the time of t and lists the
\* coordinates of row l of locs (rows with the coordinates of another row
\* included), and has the value it had before the call otherwise.
C5_PointExclusion ==
    pc = "removed" =>
        \A l \in 1..Len(locs) : \A t \in 1..Len(dates_and_times) :
            IF \E f \in 1..Len(times_to_remove) :
                   /\ times_to_remove[f] = dates_and_times[t]
                   /\ locs[l] \in Range(locs_to_remove[f])
            THEN wind_speeds[l][t] = NaN
            ELSE wind_speeds[l][t] = ws_in[l][t]

\* the line passes the season, hour, status and region filters of readBestTracks
Accepted(line) == InSeason(line) /\ Synoptic(line) /\ IsTSorHU(line) /\ NearRegion(line)

\* 60 times the radius of the statement: the largest of the floor (480 for
\* HU, 360 for TS) and the four wind radii
C23_Radius60(line) ==
    LET floor == IF line.status = "HU" THEN 480 ELSE 360
        five == <<floor, line.radii[1], line.radii[2], line.radii[3], line.radii[4]>>
    IN  CHOOSE r \in {five[n] : n \in 1..5} : \A n \in 1..5 : five[n] <= r

\* |lon - eye_lon| <= radius and |lat - eye_lat| <= radius, in hundredths of
\* a degree on both sides (radius = C23_Radius60 / 60 degrees)
C23_Within(loc, line) ==
    /\ 60 * Abs(loc[1] + line.lon) <= 100 * C23_Radius60(line)
    /\ 60 * Abs(loc[2] - line.lat) <= 100 * C23_Radius60(line)

\* the accepted lines with a location within the radius, in file order
C23_Recorded ==
    SelectSeq(lines, LAMBDA line :
        Accepted(line) /\ \E l \in 1..Len(locs) : C23_Within(locs[l], line))

\* C23: once readBestTracks has returned, the fixes recorded are the accepted
\* fixes with a location within max(floor, four radii) / 60 degrees of the eye
\* in longitude and in latitude (floor 480 for HU, 360 for TS), a location is
\* listed at a fix if and only if it is within that radius, times_to_remove
\* and locs_to_remove have the same length and no list of locations is empty.
C23_ExclusionRadius ==
    pc # "readBestTracks" =>
        /\ Len(times_to_remove) = Len(locs_to_remove)
        /\ Len(times_to_remove) = Len(C23_Recorded)
        /\ \A k \in 1..Len(locs_to_remove) :
              /\ locs_to_remove[k] # <<>>
              /\ times_to_remove[k] = LineTime(C23_Recorded[k])
              /\ C23_Radius60(C23_Recorded[k]) >=
                    (IF C23_Recorded[k].status = "HU" THEN 60 * 8 ELSE 60 * 6)
              /\ \A l \in 1..Len(locs) :
                    (\E m \in 1..Len(locs_to_remove[k]) : locs_to_remove[k][m] = locs[l])
                        <=> C23_Within(locs[l], C23_Recorded[k])

\* a tropical storm without wind radii lists the location 0.5 degrees away
\* only; a hurricane at the same place lists the location 7.5 degrees away too
C23_Witness ==
    /\ pc = "removeTCWinds"
    /\ locs = <<<<-9000, 2850>>, <<-8250, 2850>>>>
    /\ Len(lines) = 2
    /\ lines[1].status = "TS" /\ lines[1].radii = NoRadii
    /\ lines[2].status = "HU" /\ lines[2].radii = NoRadii
    /\ locs_to_remove = << <<(<<-9000, 2850>>)>>, <<(<<-9000, 2850>>), (<<-8250, 2850>>)>> >>

\* C6: removeTCWinds called with empty times_to_remove and locs_to_remove
\* returns, and the array has the shape and the values it had before the
\* call, NaNs included.
C6_EmptyFixList ==
    (pc \in {"removed", "IndexError", "ValueError"} /\ times_to_remove = <<>>) =>
        /\ pc = "removed"
        /\ wind_speeds = ws_in

\* removeTCWinds has returned for a file whose two lines gave no fix to
\* remove, on an array that held a NaN before the call
C6_Witness ==
    /\ pc = "removed"
    /\ times_to_remove = <<>>
    /\ locs_to_remove = <<>>
    /\ Len(lines) = 2
    /\ IsNaN(ws_in[1][1])
    /\ Len(wind_speeds) = 2
    /\ wind_speeds[1][1] = NaN
    /\ wind_speeds[2][2] = 22

---------------------------------------------------------------------------
(* The startup location filter *)

\* points north or east of North Carolina, west of Corpus Christi and south
\* of Key West are dropped (lon, lat in hundredths of a degree)
InCoastalBox(lon, lat) == lon > -9800 /\ lon <= -7500 /\ lat > 2400 /\ lat <= 3600

\* so are points along the Mexican coast, around The Bahamas and in North
\* Carolina
NotExcluded(lon, lat) ==
    /\ ~(lon < -9600 /\ lat < 2600)
    /\ ~(lon > -7900 /\ lat < 3000)
    /\ ~(lat > 3375 \/ (lat = 3375 /\ lon >= -7800))

\* the test of the branch of the region reg; the else branch (any other
\* string, 'AL' and 'NC' among them) keeps every point
RegionRule(reg, lon, lat) ==
    CASE reg = "AC" ->
            lon >= -8025 \/ (lon = -8175 /\ lat > 2850) \/ (lon = -8100 /\ lat > 2625)
      [] reg = "GOM" -> lon < -8325
      [] reg = "FL" -> lon > -8400 /\ lon <= -7950 /\ lat <= 3075
      [] reg = "NTX" -> lon <= -9450 /\ lat >= 2850
      [] reg = "STX" -> lon <= -9450 /\ lat < 2850
      [] reg = "TX" -> lon <= -9450
      [] reg = "LA-MS" -> lon > -9450 /\ lon <= -8850
      [] reg = "AL-FL" -> lon > -8850 /\ lon <= -8400
      [] reg = "WFL" ->
            \/ (lon > -8400 /\ lon <= -8250)
            \/ (lon = -8175 /\ lat <= 2850)
            \/ (lon = -8100 /\ lat <= 2625)
      [] reg = "EFL" ->
            \/ (lon = -8175 /\ lat > 2850 /\ lat <= 3075)
            \/ (lon = -8100 /\ lat > 2625 /\ lat <= 3075)
            \/ (lon = -8025 /\ lat <= 3075)
            \/ (lon = -7950 /\ lat <= 3075)
      [] reg = "NFL" -> (lon > -8400 /\ lon <= -7950) /\ (lat <= 3075 /\ lat > 2700)
      [] reg = "SFL" -> lon > -8400 /\ lon <= -7950 /\ lat <= 2700
      [] reg = "GA-SC" ->
            \/ (lon = -8175 /\ lat > 3075)
            \/ (lon = -8100 /\ lat > 3075)
            \/ (lon = -8025 /\ lat > 3075)
            \/ (lon = -7950 /\ lat > 3075)
            \/ (lon = -7875 /\ lat <= 3375)
            \/ (lon = -7800 /\ lat = 3300)
      [] OTHER -> TRUE

\* the location loc = [lon, lat] is appended to temp_locs
Kept(reg, loc) ==
    /\ InCoastalBox(loc[1], loc[2])
    /\ NotExcluded(loc[1], loc[2])
    /\ RegionRule(reg, loc[1], loc[2])

\* temp_wind_speeds.insert(0, wind_speeds[i])
PrependRow(rows, row) == <<row>> \o rows

\* temp_wind_speeds.append(wind_speeds[i])
AppendRow(rows, row) == Append(rows, row)

\* map(abs, temp_wind_speeds): abs of every sample of every row
AbsRows(rows) == [l \in 1..Len(rows) |-> [t \in 1..Len(rows[l]) |-> Abs(rows[l][t])]]

\* the keys of the dictionary location_names
location_names ==
    {"AL", "AC", "GOM", "FL", "NTX", "STX", "TX", "LA-MS", "AL-FL", "WFL", "EFL",
     "NFL", "SFL", "GA-SC", "NC"}

\* the regional abbreviations tried: those of location_names and one that is
\* not in the dictionary
RegionChoices == location_names \cup {"XX"}

\* the locations tried: on the Mexican coast (excluded), South Texas,
\* Louisiana, West Florida, East Florida, Georgia, and east of the box
PointChoices ==
    {<<-9750, 2550>>, <<-9525, 2775>>, <<-9000, 2925>>, <<-8175, 2775>>,
     <<-8025, 2625>>, <<-8100, 3150>>, <<-7000, 3000>>}

\* the wind speed row of location l of the data file: a negative speed, a
\* NaN and a positive speed, of their own for every l
DataRow(l) == <<-(10 * l + 1), NaN, 10 * l + 2>>

FilterStart ==
    /\ region \in RegionChoices
    /\ \E n \in 0..MaxDataLocs : data_loc \in [1..n -> PointChoices]
    /\ data_ts = [l \in 1..Len(data_loc) |-> DataRow(l)]
    /\ locs = data_loc
    /\ wind_speeds = data_ts
    /\ temp_locs = <<>>
    /\ temp_wind_speeds = <<>>
    /\ i = 0
    /\ j = 0
    /\ pc = "filter"
    /\ season = <<>>
    /\ FreqIdle
    /\ TableIdle
    /\ dates_and_times = <<>>
    /\ lines = <<>>
    /\ times_to_remove = <<>>
    /\ locs_to_remove = <<>>
    /\ ws_in = <<>>
    /\ RegionIdle
    /\ SpeedIdle
    /\ AvgIdle
    /\ BootIdle
    /\ PipeIdle
    /\ IngestIdle
    /\ HeapIdle
    /\ AnnualIdle
    /\ WindboxIdle

\* one pass of the while loop over locs
FilterLocation ==
    /\ pc = "filter"
    /\ i < Len(locs)
    /\ IF Kept(region, locs[i + 1])
       THEN /\ temp_locs' = Append(temp_locs, locs[i + 1])
            /\ temp_wind_speeds' = AppendRow(temp_wind_speeds, wind_speeds[i + 1])
       ELSE UNCHANGED <<temp_locs, temp_wind_speeds>>
    /\ i' = i + 1
    /\ UNCHANGED <<pc, j, wind_speeds, season, freqVars, tableVars,
                   locs, dates_and_times, lines, times_to_remove, locs_to_remove, ws_in,
                   region, data_loc, data_ts, regionVars, speedVars, avgVars, bootVars, pipeVars, ingestVars, heapVars, annualVars, windboxVars>>

\* locs = temp_locs; wind_speeds = map(abs, temp_wind_speeds)
FilterEnd ==
    /\ pc = "filter"
    /\ i >= Len(locs)
    /\ locs' = temp_locs
    /\ wind_speeds' = AbsRows(temp_wind_speeds)
    /\ pc' = "filtered"
    /\ UNCHANGED <<i, j, season, freqVars, tableVars,
                   dates_and_times, lines, times_to_remove, locs_to_remove, ws_in,
                   filterVars, regionVars, speedVars, avgVars, bootVars, pipeVars, ingestVars, heapVars, annualVars, windboxVars>>

NextFilter == FilterLocation \/ FilterEnd

SpecFilter == FilterStart /\ [][NextFilter]_vars

---------------------------------------------------------------------------
(* Claims about the startup location filter *)

\* C10: after the filter, locs and wind_speeds have the same length and there
\* is a strictly increasing map f from their indices to indices of the data
\* file with locs[k] the input location f[k] and wind_speeds[k] the absolute
\* values of the input row f[k].
C10_OrderAndAlignment ==
    pc = "filtered" =>
        /\ Len(locs) = Len(wind_speeds)
        /\ Len(locs) <= Len(data_loc)
        /\ \E f \in [1..Len(locs) -> 1..Len(data_loc)] :
               /\ \A a, b \in 1..Len(locs) : a < b => f[a] < f[b]
               /\ \A k \in 1..Len(locs) :
                      /\ locs[k] = data_loc[f[k]]
                      /\ Len(wind_speeds[k]) = Len(data_ts[f[k]])
                      /\ \A t \in 1..Len(wind_speeds[k]) :
                             wind_speeds[k][t] =
                                 (IF data_ts[f[k]][t] = NaN THEN NaN
                                  ELSE IF data_ts[f[k]][t] < 0 THEN -data_ts[f[k]][t]
                                  ELSE data_ts[f[k]][t])

\* C12 (as claimed): with a regional abbreviation that is not a key of
\* location_names the filter keeps no location and does not run to its end.
C12_UnknownRegionFails ==
    region \notin location_names => (temp_locs = <<>> /\ pc # "filtered")

\* the Gulf of Mexico filter has kept the first and the third of three
\* locations and dropped the East Florida one between them
C10_Witness ==
    /\ pc = "filtered"
    /\ region = "GOM"
    /\ data_loc = <<<<-9525, 2775>>, <<-8025, 2625>>, <<-9000, 2925>>>>
    /\ locs = <<<<-9525, 2775>>, <<-9000, 2925>>>>
    /\ wind_speeds = <<<<11, NaN, 12>>, <<31, NaN, 32>>>>

---------------------------------------------------------------------------
(* The region rules, tried on one location *)

\* the seven regions that are not made of other regions
NonComposite == {"NTX", "STX", "LA-MS", "AL-FL", "WFL", "EFL", "GA-SC"}

\* the regional abbreviations in the order they are tried
RegionOrder ==
    <<"AL", "AC", "GOM", "FL", "NTX", "STX", "TX", "LA-MS", "AL-FL", "WFL", "EFL",
      "NFL", "SFL", "GA-SC", "NC", "XX">>

\* the locations tried: the points of the 0.75 degree grid of the data (the
\* grid the rules name the columns -81.75, -81, -80.25, ... of) from 98.25W
\* to 74.25W and from 23.25N to 36.75N, in hundredths of a degree
GridPoints == {<<-75 * a, 75 * b>> : a \in 99..131, b \in 31..49}

RegionStart ==
    /\ point \in GridPoints
    /\ selected = {}
    /\ i = 0
    /\ j = 0
    /\ pc = "regions"
    /\ wind_speeds = <<>>
    /\ season = <<>>
    /\ FreqIdle
    /\ TableIdle
    /\ TrackIdle
    /\ FilterIdle
    /\ SpeedIdle
    /\ AvgIdle
    /\ BootIdle
    /\ PipeIdle
    /\ IngestIdle
    /\ HeapIdle
    /\ AnnualIdle
    /\ WindboxIdle

\* the body of the filter loop for the location point, run with the next
\* regional abbreviation
TryRegion ==
    /\ pc = "regions"
    /\ i < Len(RegionOrder)
    /\ selected' = IF Kept(RegionOrder[i + 1], point)
                   THEN selected \cup {RegionOrder[i + 1]}
                   ELSE selected
    /\ i' = i + 1
    /\ UNCHANGED <<pc, j, wind_speeds, season, freqVars, tableVars, trackVars,
                   filterVars, point, speedVars, avgVars, bootVars, pipeVars, ingestVars, heapVars, annualVars, windboxVars>>

\* every abbreviation has been tried
RegionsTried ==
    /\ pc = "regions"
    /\ i >= Len(RegionOrder)
    /\ pc' = "classified"
    /\ UNCHANGED <<i, j, wind_speeds, season, freqVars, tableVars, trackVars,
                   filterVars, regionVars, speedVars, avgVars, bootVars, pipeVars, ingestVars, heapVars, annualVars, windboxVars>>

NextRegion == TryRegion \/ RegionsTried

SpecRegion == RegionStart /\ [][NextRegion]_vars

---------------------------------------------------------------------------
(* Claims about the region rules *)

\* the point passes the coastal box and the three exclusion rules
PreFiltered == InCoastalBox(point[1], point[2]) /\ NotExcluded(point[1], point[2])

\* C11 (as claimed): a location that passes the coastal box and the exclusion
\* rules is kept under exactly one of the seven non-composite regions.
C11_ExactlyOneRegion ==
    (pc = "classified" /\ PreFiltered) =>
        Cardinality(selected \cap NonComposite) = 1

\* C13 (as claimed): a pre-filtered location is kept under FL if and only if
\* it is kept under WFL or under EFL.
C13_FloridaIsWestPlusEast ==
    (pc = "classified" /\ PreFiltered) =>
        ("FL" \in selected <=> ("WFL" \in selected \/ "EFL" \in selected))

\* C14 (as claimed): a pre-filtered location is kept under AC if and only if
\* it is kept under EFL or under GA-SC.
C14_AtlanticIsEastPlusGeorgia ==
    (pc = "classified" /\ PreFiltered) =>
        ("AC" \in selected <=> ("EFL" \in selected \/ "GA-SC" \in selected))

---------------------------------------------------------------------------
(* getBestTrackSpeeds *)

(* The best track file is a sequence of storms in the HURDAT2 layout: a
   header line (AL092011,  IRENE, 39,) followed by the records of the storm,
   one for every synoptic hour 6 hours after the one before, with records of
   other hours (a landfall) between them.  A file is written here as a
   sequence of tokens and FileOf gives its lines, with the fields of
   readBestTracks.  The name of a header is right-justified in line[9:28]:
   line[19:21], the status of a record, is two letters of a name of nine
   letters or more ("TS" for the header token "H79TS"), blank otherwise, and
   line[23:27], the latitude of a record, is letters or blanks.            *)

HeaderTokens == {"H78", "H79", "H98", "H17", "H79TS"}
RecordTokens == {"TSnear", "HUnear", "TDnear", "TSfar", "TSoff", "TSnorth"}

\* the year of the storms under a header token
TokenYear(tok) ==
    CASE tok = "H78" -> 1978
      [] tok = "H98" -> 1998
      [] tok = "H17" -> 2017
      [] OTHER -> 1979

\* the index of the header token of the storm of token k of the file toks
HeaderAt(toks, k) ==
    CHOOSE h \in 1..k : toks[h] \in HeaderTokens
                        /\ \A m \in (h + 1)..k : toks[m] \notin HeaderTokens

\* the number of synoptic records of the storm of token k up to token k
SynopticsUpTo(toks, k) ==
    Cardinality({m \in (HeaderAt(toks, k) + 1)..k : toks[m] # "TSoff"})

\* the hours from 0000Z August 1 to record k: six for every synoptic record,
\* three before the next synoptic hour for a record of another hour
HoursOf(toks, k) ==
    IF toks[k] = "TSoff" THEN 6 * (SynopticsUpTo(toks, k) + 1) - 3
    ELSE 6 * SynopticsUpTo(toks, k)

\* the line of token k of the file toks
LineOf(toks, k) ==
    IF toks[k] \in HeaderTokens
    THEN [al |-> TRUE, year |-> 0,
          month |-> TokenYear(toks[k]) \div 100, day |-> TokenYear(toks[k]) % 100,
          hhmm |-> -1, status |-> (IF toks[k] = "H79TS" THEN "TS" ELSE ""),
          lat |-> 0, lon |-> 0, radii |-> NoRadii]
    ELSE [al |-> FALSE, year |-> TokenYear(toks[HeaderAt(toks, k)]),
          month |-> 8, day |-> 1 + (HoursOf(toks, k) \div 24),
          hhmm |-> 100 * (HoursOf(toks, k) % 24),
          status |-> (CASE toks[k] = "HUnear" -> "HU"
                        [] toks[k] = "TDnear" -> "TD"
                        [] OTHER -> "TS"),
          lat |-> (CASE toks[k] = "TSfar" -> 2950
                     [] toks[k] = "TSnorth" -> 3900
                     [] OTHER -> 2800),
          lon |-> 9000, radii |-> NoRadii]

FileOf(toks) == [k \in 1..Len(toks) |-> LineOf(toks, k)]

\* the files tried: every sequence of at most MaxFileLines tokens that
\* starts with a header
BestTrackFiles ==
    {FileOf(toks) : toks \in
        {t \in UNION {[1..n -> HeaderTokens \cup RecordTokens] : n \in 1..MaxFileLines} :
            t[1] \in HeaderTokens}}

\* every line of the file is kept
KeepEveryLine(line) == TRUE

\* a line is kept in new_lines: a line at 0000Z, 0600Z, 1200Z or 1800Z, or a
\* header
KeepLine(line) == line.hhmm \in {0, 600, 1200, 1800} \/ line.al

\* float(line[23:27]) of a header reads blanks or letters of the name as a number
ParsesAsZero(line) == FALSE

\* float(line[23:27]) raises ValueError: the line is a header, whose
\* line[23:27] is blanks or letters of the name
FloatRaises(line) == line.al

\* lines[i-1] (i 0-based): the line before line i, the last line of the list
\* for i = 0
PrevLine(ls, ii) == IF ii = 0 THEN ls[Len(ls)] ELSE ls[ii]

\* the line is in the hurricane season, not of 2017 and not a header
SpeedInSeason(line) == line.year # 2017 /\ InSeason(line) /\ ~line.al

\* the tropical cyclone is not too far away from the region of interest
SpeedNearRegion(line) ==
    line.lat < 3800 /\ line.lat > 2000 /\ line.lon < 10300 /\ line.lon > 7300

\* the eye of the line is within 1 degree of the data point loc
EyeNear(line, loc) ==
    Abs(line.lat - Abs(loc[2])) < 100 /\ Abs(line.lon - Abs(loc[1])) < 100

\* in_range after the loop over locs
InRange(ls, ii, lcs) ==
    \E l \in 1..Len(lcs) :
        \/ EyeNear(ls[ii + 1], lcs[l])
        \/ (~PrevLine(ls, ii).al /\ EyeNear(PrevLine(ls, ii), lcs[l]))

\* the previous line reads as a tropical storm or a hurricane
PrevIsTSorHU(ls, ii) == IsTSorHU(PrevLine(ls, ii))

\* the translation speed appended for line i: the Haversine distance between
\* the eyes of lines i-1 and i over 6 hours, kept as the two lines it is
\* computed from
Speed(ls, ii) == [prev |-> PrevLine(ls, ii), cur |-> ls[ii + 1], at |-> ii]

SpeedStart ==
    /\ lines \in BestTrackFiles
    /\ locs = <<<<-9000, 2850>>, <<-8250, 2850>>>>
    /\ new_lines = <<>>
    /\ best_track_speeds = <<>>
    /\ best_track_speeds_79_97 = <<>>
    /\ best_track_speeds_98_16 = <<>>
    /\ i = 0
    /\ j = 0
    /\ pc = "getBestTrackSpeeds"
    /\ wind_speeds = <<>>
    /\ season = <<>>
    /\ FreqIdle
    /\ TableIdle
    /\ dates_and_times = <<>>
    /\ times_to_remove = <<>>
    /\ locs_to_remove = <<>>
    /\ ws_in = <<>>
    /\ FilterIdle
    /\ RegionIdle
    /\ AvgIdle
    /\ BootIdle
    /\ PipeIdle
    /\ IngestIdle
    /\ HeapIdle
    /\ AnnualIdle
    /\ WindboxIdle

\* lines = new_lines: the lines of other hours are removed
SpeedFilterLines ==
    /\ pc = "getBestTrackSpeeds"
    /\ new_lines' = SelectSeq(lines, KeepLine)
    /\ pc' = "speeds"
    /\ UNCHANGED <<i, j, wind_speeds, season, freqVars, tableVars, trackVars,
                   filterVars, regionVars,
                   best_track_speeds, best_track_speeds_79_97, best_track_speeds_98_16, avgVars, bootVars, pipeVars, ingestVars, heapVars, annualVars, windboxVars>>

\* one pass of the while loop over the lines
SpeedLine ==
    /\ pc = "speeds"
    /\ i < Len(new_lines)
    /\ LET line == new_lines[i + 1] IN
       IF /\ SpeedInSeason(line)
          /\ IsTSorHU(line)
          /\ SpeedNearRegion(line)
          /\ InRange(new_lines, i, locs)
          /\ PrevIsTSorHU(new_lines, i)
       THEN IF FloatRaises(PrevLine(new_lines, i))
            THEN /\ pc' = "ValueError"
                 /\ UNCHANGED <<i, best_track_speeds, best_track_speeds_79_97,
                                best_track_speeds_98_16>>
            ELSE /\ best_track_speeds' = Append(best_track_speeds, Speed(new_lines, i))
                 /\ IF line.year < 1998
                    THEN /\ best_track_speeds_79_97' =
                                Append(best_track_speeds_79_97, Speed(new_lines, i))
                         /\ UNCHANGED best_track_speeds_98_16
                    ELSE /\ best_track_speeds_98_16' =
                                Append(best_track_speeds_98_16, Speed(new_lines, i))
                         /\ UNCHANGED best_track_speeds_79_97
                 /\ i' = i + 1
                 /\ UNCHANGED pc
       ELSE /\ i' = i + 1
            /\ UNCHANGED <<pc, best_track_speeds, best_track_speeds_79_97,
                           best_track_speeds_98_16>>
    /\ UNCHANGED <<j, wind_speeds, season, freqVars, tableVars, trackVars,
                   filterVars, regionVars, new_lines, avgVars, bootVars, pipeVars, ingestVars, heapVars, annualVars, windboxVars>>

\* return best_track_speeds, best_track_speeds_79_97, best_track_speeds_98_16
SpeedReturn ==
    /\ pc = "speeds"
    /\ i >= Len(new_lines)
    /\ pc' = "speedsReturned"
    /\ UNCHANGED <<i, j, wind_speeds, season, freqVars, tableVars, trackVars,
                   filterVars, regionVars, speedVars, avgVars, bootVars, pipeVars, ingestVars, heapVars, annualVars, windboxVars>>

NextSpeed == SpeedFilterLines \/ SpeedLine \/ SpeedReturn

SpecSpeed == SpeedStart /\ [][NextSpeed]_vars

---------------------------------------------------------------------------
(* Claims about getBestTrackSpeeds *)

\* the storm of line k of ls: the number of header lines up to line k
StormOf(ls, k) == Cardinality({h \in 1..k : ls[h].al})

\* the eye of the line is less than 1 degree from the location in latitude
\* and in longitude
WithinOneDegree(line, loc) ==
    /\ line.lat - loc[2] \in -99..99
    /\ line.lon + loc[1] \in -99..99

\* the hours of the time of a record from 0000Z of day 0 of its month
HourOfMonth(line) == 24 * line.day + (line.hhmm \div 100)

\* C15: no translation speed is computed from a pair of lines whose earlier
\* line is a header or a line of another storm than the later line: for the
\* first fix of a storm nothing is appended.
C15_NoSpeedForFirstFix ==
    \A k \in 1..Len(best_track_speeds) :
        LET s == best_track_speeds[k] IN
        /\ s.at >= 1
        /\ s.cur = new_lines[s.at + 1]
        /\ s.prev = new_lines[s.at]
        /\ ~s.prev.al
        /\ StormOf(new_lines, s.at) = StormOf(new_lines, s.at + 1)

\* the first fix of a storm was a tropical storm near a location and gave no
\* speed; the second fix gave one
C15_Witness ==
    /\ pc = "speedsReturned"
    /\ Len(new_lines) = 3
    /\ new_lines[1].al
    /\ new_lines[2].status = "TS"
    /\ WithinOneDegree(new_lines[2], locs[1])
    /\ Len(best_track_speeds) = 1
    /\ best_track_speeds[1].at = 2

\* C16: a translation speed is appended for a pair of lines only if both are
\* TS or HU records of the same storm at synoptic hours 6 hours apart and the
\* eye is within 1 degree of a location at the later or at the earlier one.
C16_SpeedOnlyForValidPair ==
    \A k \in 1..Len(best_track_speeds) :
        LET s == best_track_speeds[k] IN
        /\ s.prev.status \in {"TS", "HU"}
        /\ s.cur.status \in {"TS", "HU"}
        /\ s.prev.hhmm \in {0, 600, 1200, 1800}
        /\ s.cur.hhmm \in {0, 600, 1200, 1800}
        /\ ~s.prev.al /\ ~s.cur.al
        /\ s.at >= 1
        /\ StormOf(new_lines, s.at) = StormOf(new_lines, s.at + 1)
        /\ s.prev.year = s.cur.year /\ s.prev.month = s.cur.month
        /\ HourOfMonth(s.cur) - HourOfMonth(s.prev) = 6
        /\ \E l \in 1..Len(locs) :
               WithinOneDegree(s.cur, locs[l]) \/ WithinOneDegree(s.prev, locs[l])

\* a speed was appended for a fix that is 1 degree or more from every
\* location, after a fix within 1 degree of one
C16_Witness ==
    /\ pc = "speedsReturned"
    /\ \E k \in 1..Len(best_track_speeds) :
           /\ \A l \in 1..Len(locs) : ~WithinOneDegree(best_track_speeds[k].cur, locs[l])
           /\ \E l \in 1..Len(locs) : WithinOneDegree(best_track_speeds[k].prev, locs[l])

\* C22: every speed of best_track_speeds_79_97 is of a fix of 1979..1997,
\* every speed of best_track_speeds_98_16 of a fix of 1998..2016, every speed
\* of best_track_speeds of a fix of 1979..2016, and best_track_speeds has as
\* many speeds as the two period lists together.
C22_PeriodsByYear ==
    /\ \A k \in 1..Len(best_track_speeds_79_97) :
           best_track_speeds_79_97[k].cur.year \in 1979..1997
    /\ \A k \in 1..Len(best_track_speeds_98_16) :
           best_track_speeds_98_16[k].cur.year \in 1998..2016
    /\ \A k \in 1..Len(best_track_speeds) :
           best_track_speeds[k].cur.year \in 1979..2016
    /\ Len(best_track_speeds) =
           Len(best_track_speeds_79_97) + Len(best_track_speeds_98_16)

---------------------------------------------------------------------------
(* averageWindsEachTime *)

(* An average sum_wind_speeds/count is the exact quotient, written as the
   integer sum * Scale / count in units of 1/Scale of a tenth of a m/s: Scale
   is a multiple of every count the arrays tried can give.  A value of the
   smoothed list is np.sum(window)/time_interval, the record of the sum num
   and the divisor den; NaN when a value of the window is NaN.             *)

RECURSIVE Gcd(_, _)
Gcd(a, b) == IF b = 0 THEN a ELSE Gcd(b, a % b)

RECURSIVE LcmUpTo(_)
LcmUpTo(n) == IF n <= 1 THEN 1 ELSE (LcmUpTo(n - 1) * n) \div Gcd(LcmUpTo(n - 1), n)

Scale == LcmUpTo(MaxLocs * MaxSeasons)

\* a NaN sample adds 0 to the sum and is counted
AddSampleCountingNaN(acc, x) ==
    IF IsNaN(x) THEN <<acc[1], acc[2] + 1>> ELSE <<acc[1] + x, acc[2] + 1>>

\* if not np.isnan(wind_speeds[k][j]): the sample is added to
\* sum_wind_speeds and count goes up by one; acc is <<sum_wind_speeds, count>>
AddSample(acc, x) ==
    IF IsNaN(x) THEN acc ELSE <<acc[1] + x, acc[2] + 1>>

\* the loop over the locations k at the time index jj
RECURSIVE LocLoop(_, _, _, _)
LocLoop(ws, jj, k, acc) ==
    IF k < Len(ws)
    THEN LocLoop(ws, jj, k + 1, AddSample(acc, ws[k + 1][jj + 1]))
    ELSE acc

\* the loop over the hurricane seasons: j = i, i + 732, ... below
\* len(wind_speeds[0])
RECURSIVE SeasonLoop(_, _, _)
SeasonLoop(ws, jj, acc) ==
    IF jj < Len(ws[1])
    THEN SeasonLoop(ws, jj + SeasonLen, LocLoop(ws, jj, 0, acc))
    ELSE acc

\* the average appended for slot ii: sum_wind_speeds/count, NaN for count 0
SlotAverage(ws, ii) ==
    LET acc == SeasonLoop(ws, ii, <<0, 0>>) IN
    IF acc[2] # 0 THEN (acc[1] * Scale) \div acc[2] ELSE NaN

\* time_interval / 2 of integers
HalfInterval(w) == w \div 2

\* temp_wind_speeds[lo:hi], a slice of a list (0-based, hi excluded, cut at
\* the ends of the list)
Slice(s, lo, hi) ==
    LET a == IF lo < 0 THEN 0 ELSE IF lo > Len(s) THEN Len(s) ELSE lo
        b == IF hi < 0 THEN 0 ELSE IF hi > Len(s) THEN Len(s) ELSE hi
    IN  IF a < b THEN SubSeq(s, a + 1, b) ELSE <<>>

\* np.sum(window)/time_interval
WindowAverage(window, w) ==
    IF \E k \in 1..Len(window) : IsNaN(window[k]) THEN NaN
    ELSE [num |-> SumSeq(window), den |-> w]

\* the test of the smoothing loop without the + 1
MoreWindowsShort(ii, n, w) == ii < n - HalfInterval(w)

\* while i < (len(temp_wind_speeds) - (time_interval / 2) + 1)
MoreWindows(ii, n, w) == ii < n - HalfInterval(w) + 1

\* the days of the hurricane season before each month, from May 30
MonthStarts == <<<<5, 0>>, <<6, 2>>, <<7, 32>>, <<8, 63>>, <<9, 94>>, <<10, 124>>, <<11, 155>>>>

\* the time of index jj of the archive: four a day from May 30 to November
\* 28 of every year from 1979, <<year, month, day, hour, minute>>
ArchiveDate(jj) ==
    LET d == (jj % SeasonLen) \div 4
        m == CHOOSE m \in 1..Len(MonthStarts) :
                 /\ MonthStarts[m][2] <= d
                 /\ (m = Len(MonthStarts) \/ d < MonthStarts[m + 1][2])
    IN  <<1979 + (jj \div SeasonLen), MonthStarts[m][1],
          (IF m = 1 THEN 30 ELSE 1) + (d - MonthStarts[m][2]), 6 * (jj % 4), 0>>

\* datetime.strptime(t.strftime('%m-%d %H:%M:%S'), '%m-%d %H:%M:%S'): the
\* year is lost and reads 1900
MonthDayTime(t) == <<1900, t[2], t[3], t[4], t[5]>>

\* the arrays tried, nl locations and s seasons: p = 1 has no NaN; p = 2 has
\* NaN at slot 5 of every season and location and at every fourth sample
AvgSample(p, k, jj) ==
    IF p = 2 /\ (jj % SeasonLen = 5 \/ (jj + k) % 4 = 0) THEN NaN
    ELSE 10 + ((7 * jj + 3 * k + 11 * (jj \div SeasonLen)) % 50)

AvgInput(nl, s, p) ==
    [k \in 1..nl |-> [t \in 1..(s * SeasonLen) |-> AvgSample(p, k, t - 1)]]

AvgShapes == {<<1, 1>>, <<MaxLocs, MaxSeasons>>}

IntervalChoices == {1, 2, 3, 12}

AvgStart ==
    /\ \E sh \in AvgShapes : \E p \in 1..2 : wind_speeds = AvgInput(sh[1], sh[2], p)
    /\ dates_and_times = [t \in 1..Len(wind_speeds[1]) |-> ArchiveDate(t - 1)]
    /\ time_interval \in IntervalChoices
    /\ avg_wind_speeds = <<>>
    /\ new_dates_and_times = <<>>
    /\ temp_wind_speeds = <<>>
    /\ i = 0
    /\ j = 0
    /\ pc = "averageWindsEachTime"
    /\ season = <<>>
    /\ FreqIdle
    /\ TableIdle
    /\ locs = <<>>
    /\ lines = <<>>
    /\ times_to_remove = <<>>
    /\ locs_to_remove = <<>>
    /\ ws_in = <<>>
    /\ region = ""
    /\ data_loc = <<>>
    /\ data_ts = <<>>
    /\ temp_locs = <<>>
    /\ RegionIdle
    /\ SpeedIdle
    /\ BootIdle
    /\ PipeIdle
    /\ IngestIdle
    /\ HeapIdle
    /\ AnnualIdle
    /\ WindboxIdle

\* one pass of the loop while i < 732: the average of slot i is appended
AvgSlot ==
    /\ pc = "averageWindsEachTime"
    /\ i < SeasonLen
    /\ avg_wind_speeds' = Append(avg_wind_speeds, SlotAverage(wind_speeds, i))
    /\ i' = i + 1
    /\ UNCHANGED <<pc, j, wind_speeds, season, freqVars, tableVars, trackVars,
                   filterVars, regionVars, speedVars, time_interval, new_dates_and_times, bootVars, pipeVars, ingestVars, heapVars, annualVars, windboxVars>>

\* temp_wind_speeds = avg_wind_speeds; avg_wind_speeds = []; i = time_interval / 2
AvgStartSmoothing ==
    /\ pc = "averageWindsEachTime"
    /\ i >= SeasonLen
    /\ temp_wind_speeds' = avg_wind_speeds
    /\ avg_wind_speeds' = <<>>
    /\ i' = HalfInterval(time_interval)
    /\ pc' = "smoothing"
    /\ UNCHANGED <<j, wind_speeds, season, freqVars, tableVars, trackVars,
                   region, data_loc, data_ts, temp_locs,
                   regionVars, speedVars, time_interval, new_dates_and_times, bootVars, pipeVars, ingestVars, heapVars, annualVars, windboxVars>>

\* one pass of the smoothing loop; dates_and_times[i] past the end of the
\* list raises IndexError
AvgSmooth ==
    /\ pc = "smoothing"
    /\ MoreWindows(i, Len(temp_wind_speeds), time_interval)
    /\ IF i >= Len(dates_and_times)
       THEN /\ pc' = "IndexError"
            /\ UNCHANGED <<i, avg_wind_speeds, new_dates_and_times>>
       ELSE /\ new_dates_and_times' =
                   Append(new_dates_and_times, MonthDayTime(dates_and_times[i + 1]))
            /\ avg_wind_speeds' =
                   Append(avg_wind_speeds,
                          WindowAverage(Slice(temp_wind_speeds,
                                              i - HalfInterval(time_interval),
                                              i + HalfInterval(time_interval)),
                                        time_interval))
            /\ i' = i + 1
            /\ UNCHANGED pc
    /\ UNCHANGED <<j, wind_speeds, season, freqVars, tableVars, trackVars,
                   filterVars, regionVars, speedVars, time_interval, bootVars, pipeVars, ingestVars, heapVars, annualVars, windboxVars>>

\* return avg_wind_speeds, new_dates_and_times
AvgReturn ==
    /\ pc = "smoothing"
    /\ ~MoreWindows(i, Len(temp_wind_speeds), time_interval)
    /\ pc' = "averaged"
    /\ UNCHANGED <<i, j, wind_speeds, season, freqVars, tableVars, trackVars,
                   filterVars, regionVars, speedVars, avgVars, bootVars, pipeVars, ingestVars, heapVars, annualVars, windboxVars>>

NextAvg == AvgSlot \/ AvgStartSmoothing \/ AvgSmooth \/ AvgReturn

SpecAvg == AvgStart /\ [][NextAvg]_vars

---------------------------------------------------------------------------
(* Claims about averageWindsEachTime *)

\* the <<location, time index>> pairs of the samples of slot s that are not NaN
SlotSamples(s) ==
    {q \in (1..Len(wind_speeds)) \X {s + 732 * y : y \in 0..(Len(wind_speeds[1]) \div 732)} :
        /\ q[2] < Len(wind_speeds[1])
        /\ q[2] % 732 = s
        /\ wind_speeds[q[1]][q[2] + 1] # NaN}

RECURSIVE SumOver(_)
SumOver(S) ==
    IF S = {} THEN 0
    ELSE LET q == CHOOSE q \in S : TRUE
         IN  wind_speeds[q[1]][q[2] + 1] + SumOver(S \ {q})

\* C17: before the smoothing the list has 732 values, and the value of slot s
\* is the sum of the samples of the slot that are not NaN divided by their
\* number, NaN when there is none.
C17_SlotMean ==
    (pc = "smoothing" /\ avg_wind_speeds = <<>>) =>
        /\ Len(temp_wind_speeds) = 732
        /\ \A s \in 0..731 :
               IF SlotSamples(s) = {}
               THEN temp_wind_speeds[s + 1] = NaN
               ELSE /\ temp_wind_speeds[s + 1] # NaN
                    /\ temp_wind_speeds[s + 1] * Cardinality(SlotSamples(s))
                           = Scale * SumOver(SlotSamples(s))

\* the averages of an array with NaN samples are built: slot 2 has a NaN
\* sample and an average, slot 5 has NaN samples only and the average NaN
C17_Witness ==
    /\ pc = "smoothing"
    /\ avg_wind_speeds = <<>>
    /\ Len(wind_speeds) >= 2
    /\ wind_speeds[2][3] = NaN
    /\ temp_wind_speeds[3] # NaN
    /\ wind_speeds[1][6] = NaN
    /\ temp_wind_speeds[6] = NaN

\* C18 (as claimed): for an even window w the returned series and the
\* returned times both have length 732 - w.
C18_LengthShrinksByWindow ==
    (pc = "averaged" /\ time_interval % 2 = 0) =>
        /\ Len(avg_wind_speeds) = 732 - time_interval
        /\ Len(new_dates_and_times) = 732 - time_interval

\* C18 (amended): for an even window w the returned series and the returned
\* times both have length 732 - w + 1, one value for every window of w slots
\* that fits in the 732 slots.
C18_LengthShrinksByWindowLessOne ==
    (pc \in {"averaged", "IndexError"} /\ time_interval % 2 = 0) =>
        /\ pc = "averaged"
        /\ Len(avg_wind_speeds) = 732 - time_interval + 1
        /\ Len(new_dates_and_times) = 732 - time_interval + 1

\* the series smoothed over 12 slots is returned with 721 values
C18_Witness ==
    /\ pc = "averaged"
    /\ time_interval = 12
    /\ Len(avg_wind_speeds) = 721
    /\ Len(new_dates_and_times) = 721

\* C19 (as claimed): with time_interval = 1 the function returns the 732
\* averages of the slots as they are.
C19_WindowOfOneIsIdentity ==
    (pc \in {"averaged", "IndexError"} /\ time_interval = 1) =>
        /\ pc = "averaged"
        /\ Len(avg_wind_speeds) = Len(temp_wind_speeds)
        /\ \A s \in 1..Len(avg_wind_speeds) :
               IF temp_wind_speeds[s] = NaN
               THEN avg_wind_speeds[s] = NaN
               ELSE /\ avg_wind_speeds[s] # NaN
                    /\ avg_wind_speeds[s].num = temp_wind_speeds[s] * avg_wind_speeds[s].den

\* C24: for every window w >= 1, even or odd, each value of the returned
\* series is the sum of exactly w consecutive averages of the slots divided by
\* w, the w slots being a window that holds the slot of the value (stated for
\* the series whose 732 averages are all numbers).
C24_WindowMean ==
    (pc = "averaged" /\ \A s \in 1..Len(temp_wind_speeds) : ~IsNaN(temp_wind_speeds[s])) =>
        \A k \in 1..Len(avg_wind_speeds) :
            LET slot == HalfInterval(time_interval) + k - 1 IN
            \E a \in 0..(Len(temp_wind_speeds) - time_interval) :
                /\ a <= slot /\ slot < a + time_interval
                /\ avg_wind_speeds[k].num =
                       SumSeq(SubSeq(temp_wind_speeds, a + 1, a + time_interval))
                /\ avg_wind_speeds[k].den = time_interval

---------------------------------------------------------------------------
(* The bootstrap of the medians *)

\* [item for sublist in arr for item in sublist], then
\* [x for x in flat if str(x) != 'nan']
RECURSIVE FlatNoNaN(_)
FlatNoNaN(arr) ==
    IF arr = <<>> THEN <<>>
    ELSE SelectSeq(Head(arr), LAMBDA x : ~IsNaN(x)) \o FlatNoNaN(Tail(arr))

\* s in increasing order
RECURSIVE Sorted(_)
Sorted(s) ==
    IF s = <<>> THEN <<>>
    ELSE LET m == CHOOSE m \in 1..Len(s) : \A k \in 1..Len(s) : s[m] <= s[k]
         IN  <<s[m]>> \o Sorted([k \in 1..(Len(s) - 1) |-> IF k < m THEN s[k] ELSE s[k + 1]])

\* twice np.median(s): the two middle values of the sorted list added up
\* (the middle value twice for an odd length)
TwiceMedian(s) ==
    LET t == Sorted(s)
        n == Len(s)
    IN  t[(n + 1) \div 2] + t[(n + 2) \div 2]

\* arr[np.random.randint(...)]: the values of arr at the drawn indices
TakeAt(arr, idx) == [k \in 1..Len(idx) |-> arr[idx[k] + 1]]

\* the np.random.randint(0, high, size) results: size indices below high,
\* each drawn on its own
RandInts(high, size) == [1..size -> 0..(high - 1)]

\* the wind speeds of a period tried: one location with n wind speeds that
\* are not NaN (all v) and a NaN after the second of them
PeriodArray(n, v) == <<[t \in 1..(n + 1) |-> IF t = 3 THEN NaN ELSE v]>>

\* the sizes tried for the two periods
PopSizes == 5..MaxPop

np_zeros(n) == [k \in 1..n |-> 0]

BootStart ==
    /\ \E a \in PopSizes : wind_speeds_79_97 = PeriodArray(a, 12)
    /\ \E b \in PopSizes : wind_speeds_98_16 = PeriodArray(b, 37)
    /\ sample_size = 0
    /\ n_79_97 = <<>>
    /\ n_98_16 = <<>>
    /\ me_79_97 = <<>>
    /\ me_98_16 = <<>>
    /\ sample_79_97 = <<>>
    /\ sample_98_16 = <<>>
    /\ draw = <<>>
    /\ i = 0
    /\ j = 0
    /\ pc = "flatten"
    /\ wind_speeds = <<>>
    /\ season = <<>>
    /\ FreqIdle
    /\ TableIdle
    /\ TrackIdle
    /\ FilterIdle
    /\ RegionIdle
    /\ SpeedIdle
    /\ AvgIdle
    /\ PipeIdle
    /\ IngestIdle
    /\ HeapIdle
    /\ AnnualIdle
    /\ WindboxIdle

\* the arrays are flattened and the NaNs removed;
\* sample_size = len(wind_speeds_79_97)/5
BootFlatten ==
    /\ pc = "flatten"
    /\ wind_speeds_79_97' = FlatNoNaN(wind_speeds_79_97)
    /\ wind_speeds_98_16' = FlatNoNaN(wind_speeds_98_16)
    /\ sample_size' = Len(FlatNoNaN(wind_speeds_79_97)) \div 5
    /\ pc' = "n_79_97"
    /\ UNCHANGED <<i, j, wind_speeds, season, freqVars, tableVars, trackVars,
                   filterVars, regionVars, speedVars, avgVars,
                   n_79_97, n_98_16, me_79_97, me_98_16, sample_79_97, sample_98_16, draw, pipeVars, ingestVars, heapVars, annualVars, windboxVars>>

\* n_79_97 = wind_speeds_79_97[np.random.randint(0, len(wind_speeds_79_97), sample_size)]
BootSample79 ==
    /\ pc = "n_79_97"
    /\ \E idx \in RandInts(Len(wind_speeds_79_97), sample_size) :
           /\ draw' = idx
           /\ n_79_97' = TakeAt(wind_speeds_79_97, idx)
    /\ pc' = "n_98_16"
    /\ UNCHANGED <<i, j, wind_speeds, season, freqVars, tableVars, trackVars,
                   filterVars, regionVars, speedVars, avgVars,
                   wind_speeds_79_97, wind_speeds_98_16, sample_size,
                   n_98_16, me_79_97, me_98_16, sample_79_97, sample_98_16, pipeVars, ingestVars, heapVars, annualVars, windboxVars>>

\* n_98_16 = wind_speeds_98_16[np.random.randint(0, len(wind_speeds_98_16), sample_size)];
\* me_79_97 = np.zeros(n_boots_79_97); me_98_16 = np.zeros(n_boots_98_16)
BootSample98 ==
    /\ pc = "n_98_16"
    /\ \E idx \in RandInts(Len(wind_speeds_98_16), sample_size) :
           /\ draw' = idx
           /\ n_98_16' = TakeAt(wind_speeds_98_16, idx)
    /\ me_79_97' = np_zeros(Len(wind_speeds_79_97))
    /\ me_98_16' = np_zeros(Len(wind_speeds_98_16))
    /\ i' = 0
    /\ pc' = "boots_79_97"
    /\ UNCHANGED <<j, wind_speeds, season, freqVars, tableVars, trackVars,
                   filterVars, regionVars, speedVars, avgVars,
                   wind_speeds_79_97, wind_speeds_98_16, sample_size,
                   n_79_97, sample_79_97, sample_98_16, pipeVars, ingestVars, heapVars, annualVars, windboxVars>>

\* for i in xrange(n_boots_79_97): a resample of n_79_97 and its median
BootResample79 ==
    /\ pc = "boots_79_97"
    /\ i < Len(me_79_97)
    /\ \E idx \in RandInts(sample_size, sample_size) :
           /\ draw' = idx
           /\ sample_79_97' = TakeAt(n_79_97, idx)
           /\ me_79_97' = [me_79_97 EXCEPT ![i + 1] = TwiceMedian(TakeAt(n_79_97, idx))]
    /\ i' = i + 1
    /\ UNCHANGED <<pc, j, wind_speeds, season, freqVars, tableVars, trackVars,
                   filterVars, regionVars, speedVars, avgVars,
                   wind_speeds_79_97, wind_speeds_98_16, sample_size,
                   n_79_97, n_98_16, me_98_16, sample_98_16, pipeVars, ingestVars, heapVars, annualVars, windboxVars>>

\* the first loop ends: print('Done with 79-97')
BootDone79 ==
    /\ pc = "boots_79_97"
    /\ i >= Len(me_79_97)
    /\ i' = 0
    /\ pc' = "boots_98_16"
    /\ UNCHANGED <<j, wind_speeds, season, freqVars, tableVars, trackVars,
                   filterVars, regionVars, speedVars, avgVars, bootVars, pipeVars, ingestVars, heapVars, annualVars, windboxVars>>

\* for i in xrange(n_boots_98_16): a resample of n_98_16 and its median
BootResample98 ==
    /\ pc = "boots_98_16"
    /\ i < Len(me_98_16)
    /\ \E idx \in RandInts(sample_size, sample_size) :
           /\ draw' = idx
           /\ sample_98_16' = TakeAt(n_98_16, idx)
           /\ me_98_16' = [me_98_16 EXCEPT ![i + 1] = TwiceMedian(TakeAt(n_98_16, idx))]
    /\ i' = i + 1
    /\ UNCHANGED <<pc, j, wind_speeds, season, freqVars, tableVars, trackVars,
                   filterVars, regionVars, speedVars, avgVars,
                   wind_speeds_79_97, wind_speeds_98_16, sample_size,
                   n_79_97, n_98_16, me_79_97, sample_79_97, pipeVars, ingestVars, heapVars, annualVars, windboxVars>>

\* the second loop ends
BootDone98 ==
    /\ pc = "boots_98_16"
    /\ i >= Len(me_98_16)
    /\ pc' = "bootstrapped"
    /\ UNCHANGED <<i, j, wind_speeds, season, freqVars, tableVars, trackVars,
                   filterVars, regionVars, speedVars, avgVars, bootVars, pipeVars, ingestVars, heapVars, annualVars, windboxVars>>

NextBoot ==
    \/ BootFlatten \/ BootSample79 \/ BootSample98
    \/ BootResample79 \/ BootDone79 \/ BootResample98 \/ BootDone98

SpecBoot == BootStart /\ [][NextBoot]_vars

---------------------------------------------------------------------------
(* Claims about the bootstrap *)

\* C20 (as claimed): the sample of each period has the size of that period's
\* own population divided by 5 and is drawn from that population; every
\* resample is drawn from its period's sample and has the sample's size; and
\* the number of resamples of a period is the size of its population.
C20_BootstrapSizes ==
    pc = "bootstrapped" =>
        /\ Len(n_79_97) = Len(wind_speeds_79_97) \div 5
        /\ Len(n_98_16) = Len(wind_speeds_98_16) \div 5
        /\ \A k \in 1..Len(n_79_97) : n_79_97[k] \in Range(wind_speeds_79_97)
        /\ \A k \in 1..Len(n_98_16) : n_98_16[k] \in Range(wind_speeds_98_16)
        /\ Len(sample_79_97) = Len(n_79_97)
        /\ Len(sample_98_16) = Len(n_98_16)
        /\ \A k \in 1..Len(sample_79_97) : sample_79_97[k] \in Range(n_79_97)
        /\ \A k \in 1..Len(sample_98_16) : sample_98_16[k] \in Range(n_98_16)
        /\ Len(me_79_97) = Len(wind_speeds_79_97)
        /\ Len(me_98_16) = Len(wind_speeds_98_16)

---------------------------------------------------------------------------
(* The module level of DLM_stats.py: the order of the calls *)

\* the last column of 2016: getWindSpeedInterval(wind_speeds, 0, 27816)
EndOf2016 == 27816

\* the statements of the module level that read or write wind_speeds, the
\* first of each kind, in the order of the source: np.amax (line 1118),
\* getBestTrackSpeeds (1125), readBestTracks (1126), removeTCWinds (1129),
\* getWindSpeedInterval (1167), getAnnualMeans (1173), getFrequencies (1176),
\* averageWindsAmongAllPoints (1184), divideBySeason (1256),
\* averageWindsEachTime (1449), the bootstrap (2288), np.nanmean (2340),
\* np.median (2350), np.nanstd (2357)
ProgramFilterLate ==
    <<"getBestTrackSpeeds", "readBestTracks", "getWindSpeedInterval", "np.amax",
      "removeTCWinds", "getAnnualMeans", "getFrequencies",
      "averageWindsAmongAllPoints", "divideBySeason", "averageWindsEachTime",
      "bootstrap", "np.nanmean", "np.median", "np.nanstd">>
Program ==
    <<"np.amax", "getBestTrackSpeeds", "readBestTracks", "removeTCWinds",
      "getWindSpeedInterval", "getAnnualMeans", "getFrequencies",
      "averageWindsAmongAllPoints", "divideBySeason", "averageWindsEachTime",
      "bootstrap", "np.nanmean", "np.median", "np.nanstd">>

\* the statement that follows statement s, "done" after the last one
Following(s) ==
    LET k == CHOOSE n \in 1..Len(Program) : Program[n] = s
    IN  IF k < Len(Program) THEN Program[k + 1] ELSE "done"

\* getWindSpeedInterval: loc[left_bound:right_bound] of every location
GetWindSpeedInterval(ws, left_bound, right_bound) ==
    [k \in 1..Len(ws) |->
        SubSeq(ws[k], left_bound + 1,
               IF right_bound < Len(ws[k]) THEN right_bound ELSE Len(ws[k]))]

PipeStart ==
    /\ \E nl \in 1..MaxTrackLocs : locs \in [1..nl -> LocChoices]
    /\ \E n \in 0..MaxLines : lines \in [1..n -> LineChoices]
    /\ dates_and_times = [t \in 1..MaxTimes |-> ArchiveTime(t - 1)]
    /\ wind_speeds \in WindChoices(Len(locs), MaxTimes)
    /\ ws_in = wind_speeds
    /\ times_to_remove = <<>>
    /\ locs_to_remove = <<>>
    /\ i = 0
    /\ j = 0
    /\ pc = Program[1]
    /\ season = <<>>
    /\ calls = <<>>
    /\ wind_speeds_79_16 = <<>>
    /\ FreqIdle
    /\ TableIdle
    /\ FilterIdle
    /\ RegionIdle
    /\ SpeedIdle
    /\ AvgIdle
    /\ BootIdle
    /\ IngestIdle
    /\ HeapIdle
    /\ AnnualIdle
    /\ WindboxIdle

\* a statement other than the call of removeTCWinds runs: none of them
\* assigns to wind_speeds or to an element of it
PipeStatement ==
    /\ pc \in {Program[n] : n \in 1..Len(Program)} \ {"removeTCWinds"}
    /\ calls' = Append(calls, pc)
    /\ pc' = Following(pc)
    /\ IF pc = "readBestTracks"
       THEN /\ times_to_remove' = ReadBestTracks(lines, locs)[1]
            /\ locs_to_remove' = ReadBestTracks(lines, locs)[2]
       ELSE UNCHANGED <<times_to_remove, locs_to_remove>>
    /\ IF pc = "getWindSpeedInterval"
       THEN wind_speeds_79_16' = GetWindSpeedInterval(wind_speeds, 0, EndOf2016)
       ELSE UNCHANGED wind_speeds_79_16
    /\ UNCHANGED <<i, j, wind_speeds, season, freqVars, tableVars,
                   locs, dates_and_times, lines, ws_in, filterVars, regionVars, speedVars, avgVars, bootVars, ingestVars, heapVars, annualVars, windboxVars>>

\* wind_speeds = removeTCWinds(...) has returned: the next statement
PipeRemoved ==
    /\ pc = "removed"
    /\ calls' = Append(calls, "removeTCWinds")
    /\ pc' = Following("removeTCWinds")
    /\ UNCHANGED <<i, j, wind_speeds, season, freqVars, tableVars, trackVars, filterVars, regionVars, speedVars, avgVars, bootVars,
                   wind_speeds_79_16, ingestVars, heapVars, annualVars, windboxVars>>

NextPipe == PipeStatement \/ RemoveSample \/ RemoveNextTime \/ RemoveReturn \/ PipeRemoved

SpecPipe == PipeStart /\ [][NextPipe]_vars

\* the statements the contamination filter must come before
Downstream ==
    {"getWindSpeedInterval", "getAnnualMeans", "getFrequencies",
     "averageWindsAmongAllPoints", "divideBySeason", "averageWindsEachTime",
     "bootstrap", "np.nanmean", "np.median", "np.nanstd"}

Filtered == \E m \in 1..Len(calls) : calls[m] = "removeTCWinds"

\* C21: in every run removeTCWinds has returned before the first call of
\* getWindSpeedInterval, getAnnualMeans, getFrequencies, divideBySeason,
\* averageWindsEachTime or of a mean, median, standard deviation or bootstrap
\* of the wind speeds, and no step writes wind_speeds once it has returned.
C21_FilterBeforeStatistics ==
    /\ [](\A k \in 1..Len(calls) :
            calls[k] \in Downstream =>
                \E m \in 1..(k - 1) : calls[m] = "removeTCWinds")
    /\ [](pc \in Downstream => Filtered)
    /\ [][Filtered => wind_speeds' = wind_speeds]_vars

\* the program has run to its end, the filter has removed a sample and the
\* array the statistics are computed from holds the NaN
C21_Witness ==
    /\ pc = "done"
    /\ Filtered
    /\ \E k \in 1..Len(wind_speeds_79_16) : \E t \in 1..Len(wind_speeds_79_16[k]) :
          /\ IsNaN(wind_speeds_79_16[k][t])
          /\ ~IsNaN(ws_in[k][t])

---------------------------------------------------------------------------
(* deep_wind_ERA.py: readnc, and convertToDatetime on the dates it returns *)

(* A source time is an integer number of hours (the netCDF time variable);
   mytime/24. is that number of hours over 24, a number of days with a
   fraction of 0, 1/4, 1/2 or 3/4.  A calendar date is <<year, month, day>>. *)

\* the date days days after January 1 1970 (days >= -719468)
CivilFromDays(days) ==
    LET z == days + 719468
        era == z \div 146097
        doe == z - era * 146097
        yoe == (doe - (doe \div 1460) + (doe \div 36524) - (doe \div 146096)) \div 365
        doy == doe - (365 * yoe + (yoe \div 4) - (yoe \div 100))
        mp == (5 * doy + 2) \div 153
        d == doy - ((153 * mp + 2) \div 5) + 1
        m == IF mp < 10 THEN mp + 3 ELSE mp - 9
    IN  <<yoe + era * 400 + (IF m <= 2 THEN 1 ELSE 0), m, d>>

\* January 1 1900 in days after January 1 1970: sdate=dt.date(1900,1,1)
sdate == -25567

\* sdate+dt.timedelta(mytime[i]): a date plus a timedelta is the date plus
\* the whole days of the timedelta
IngestDate(hours) == CivilFromDays(sdate + (hours \div 24))

\* the serial day convertToDatetime takes for January 1 1970
SerialOf1970 == 25569

\* datetime.utcfromtimestamp((serial_time - 25569) * 86400.0) of the serial
\* time hours/24: <<year, month, day, hour, minute>>
UtcFromSerial(hours) ==
    LET date == CivilFromDays((hours \div 24) - SerialOf1970)
    IN  <<date[1], date[2], date[3], hours % 24, 0>>

\* the pressure levels of the source files, f.variables["level"]
myz == <<100, 150, 200, 250, 300, 400, 500, 700, 850, 1000>>

wgts == <<75, 150, 175, 150, 100, 75, 50, 50, 50, 25>>
critp == <<1000, 850, 700, 500, 400, 300, 250, 200, 150, 100>>

\* uu[k,:,:,:] and vv[k,:,:,:] at one point of the box: the wind at every
\* level of source time index k (0-based), a field of its own for every k
uu(k) == [z \in 1..Len(myz) |-> 100 * (k + 1) + z]
vv(k) == [z \in 1..Len(myz) |-> -20 * (k + 1) - z]

\* np.where(plev == p): the index of level p
LevelIndex(plev, p) == CHOOSE z \in 1..Len(plev) : plev[z] = p

\* deep_mean: the weighted mean over the levels, times 900
deep_mean(wind, plev) ==
    SumSeq([ip \in 1..Len(critp) |-> wind[LevelIndex(plev, critp[ip])] * wgts[ip]])

\* np.where(np.logical_and(month <= 11, month >= 6)): the indices (0-based),
\* in increasing order
RECURSIVE SeasonIndices(_, _)
SeasonIndices(mo, k) ==
    IF k >= Len(mo) THEN <<>>
    ELSE (IF mo[k + 1] <= 11 /\ mo[k + 1] >= 6 THEN <<k>> ELSE <<>>)
             \o SeasonIndices(mo, k + 1)

\* the first time of the source files, in hours since January 1 1900: 1200Z
\* and 1800Z of May 31 1979, 0000Z of June 1 and 1800Z of November 30 1979,
\* 0000Z of February 28 1980 and of November 30 2017
StartChoices == {696108, 696114, 696120, 700506, 702648, 1033608}

IngestStart ==
    /\ \E n \in 1..MaxSteps : \E start \in StartChoices :
           mytime = [k \in 1..n |-> start + 6 * (k - 1)]
    /\ month = <<>>
    /\ idates = <<>>
    /\ mydtime = <<>>
    /\ deepu = <<>>
    /\ deepv = <<>>
    /\ i = 0
    /\ j = 0
    /\ pc = "months"
    /\ wind_speeds = <<>>
    /\ season = <<>>
    /\ FreqIdle
    /\ TableIdle
    /\ locs = <<>>
    /\ dates_and_times = <<>>
    /\ lines = <<>>
    /\ times_to_remove = <<>>
    /\ locs_to_remove = <<>>
    /\ ws_in = <<>>
    /\ FilterIdle
    /\ RegionIdle
    /\ SpeedIdle
    /\ AvgIdle
    /\ BootIdle
    /\ PipeIdle
    /\ HeapIdle
    /\ AnnualIdle
    /\ WindboxIdle

\* month[i]=(sdate+dt.timedelta(mytime[i])).month
ReadncMonth ==
    /\ pc = "months"
    /\ i < Len(mytime)
    /\ month' = Append(month, IngestDate(mytime[i + 1])[2])
    /\ i' = i + 1
    /\ UNCHANGED <<pc, j, wind_speeds, season, freqVars, tableVars, trackVars, filterVars, regionVars, speedVars, avgVars, bootVars, pipeVars,
                   mytime, idates, mydtime, deepu, deepv, heapVars, annualVars, windboxVars>>

\* idates=np.where(...); mydtime=mytime[idates]; the loop over the
\* subsetted time starts
ReadncSelect ==
    /\ pc = "months"
    /\ i >= Len(mytime)
    /\ idates' = SeasonIndices(month, 0)
    /\ mydtime' = [k \in 1..Len(SeasonIndices(month, 0)) |-> mytime[SeasonIndices(month, 0)[k] + 1]]
    /\ i' = 0
    /\ pc' = "fields"
    /\ UNCHANGED <<j, wind_speeds, season, freqVars, tableVars, trackVars, filterVars, regionVars, speedVars, avgVars, bootVars, pipeVars,
                   mytime, month, deepu, deepv, heapVars, annualVars, windboxVars>>

\* one pass of the loop over the subsetted time: mytmp=uu[i,:,:,:] and
\* deepu[:,:,i]=meanv, mytmp=vv[i,:,:,:] and deepv[:,:,i]=meanv
ReadncField ==
    /\ pc = "fields"
    /\ i < Len(mydtime)
    /\ deepu' = Append(deepu, deep_mean(uu(i), myz))
    /\ deepv' = Append(deepv, deep_mean(vv(i), myz))
    /\ i' = i + 1
    /\ UNCHANGED <<pc, j, wind_speeds, season, freqVars, tableVars, trackVars, filterVars, regionVars, speedVars, avgVars, bootVars, pipeVars,
                   mytime, month, idates, mydtime, heapVars, annualVars, windboxVars>>

\* return deepu, deepv, lon,lat,mydtime
ReadncReturn ==
    /\ pc = "fields"
    /\ i >= Len(mydtime)
    /\ pc' = "readncReturned"
    /\ UNCHANGED <<i, j, wind_speeds, season, freqVars, tableVars, trackVars, filterVars, regionVars, speedVars, avgVars, bootVars, pipeVars, ingestVars, heapVars, annualVars, windboxVars>>

\* DLM_stats.py: dates_and_times = convertToDatetime(wind_speed_times), on
\* the dates readnc returned (main saves them as dates, windbox_final.py
\* passes them on as mydate)
ConvertToDatetime ==
    /\ pc = "readncReturned"
    /\ dates_and_times' = [k \in 1..Len(mydtime) |-> UtcFromSerial(mydtime[k])]
    /\ pc' = "converted"
    /\ UNCHANGED <<i, j, wind_speeds, season, freqVars, tableVars,
                   locs, lines, times_to_remove, locs_to_remove, ws_in, filterVars, regionVars, speedVars, avgVars, bootVars, pipeVars, ingestVars, heapVars, annualVars, windboxVars>>

NextIngest == ReadncMonth \/ ReadncSelect \/ ReadncField \/ ReadncReturn \/ ConvertToDatetime

SpecIngest == IngestStart /\ [][NextIngest]_vars

\* C25: for every time d the ingestion script returns, convertToDatetime(d)
\* is on the calendar day the ingestion script assigned to d (January 1 1900
\* plus d days).
C25_SameCalendarDay ==
    pc = "converted" =>
        \A k \in 1..Len(mydtime) :
            <<dates_and_times[k][1], dates_and_times[k][2], dates_and_times[k][3]>>
                = IngestDate(mydtime[k])

\* C29: for every position i the means stored at i are the deep layer means
\* of the u and v fields of source time index idates[0][i], the index whose
\* time is mydtime[i].
C29_FieldOfRetainedDate ==
    pc = "readncReturned" =>
        /\ Len(deepu) = Len(mydtime) /\ Len(deepv) = Len(mydtime)
        /\ \A k \in 1..Len(mydtime) :
              /\ mytime[idates[k] + 1] = mydtime[k]
              /\ deepu[k] = deep_mean(uu(idates[k]), myz)
              /\ deepv[k] = deep_mean(vv(idates[k]), myz)

---------------------------------------------------------------------------
(* removeTCWinds on arguments of any kind, with the arrays as objects *)

(* Here a name holds a reference: wind_speeds is the name of the object the
   caller passed ("input"), heap gives the samples of every object, and an
   assignment to an element writes the object the name is bound to.        *)

\* a copy of the object ref is made and the name is bound to the copy
BindCopy(h, ref) ==
    <<[o \in DOMAIN h \cup {"copy"} |-> IF o = "copy" THEN h[ref] ELSE h[o]], "copy">>

\* new_wind_speeds = wind_speeds: the name is bound to the object of
\* wind_speeds; <<the objects, the object of the name>>
Bind(h, ref) == <<h, ref>>

\* a time that is not in dates_and_times: a fix of September 1 1978
StrayTime == <<1978, 9, 1, 0, 0>>

\* the times of the fixes tried
FixTimeChoices == {ArchiveTime(0), ArchiveTime(1), StrayTime}

\* the lists of locations tried for a fix; locs is the first two of
\* LocChoices, so <<-7575, 3300>> is a location that is not in locs
FixLocChoices ==
    { <<(<<-9000, 2850>>)>>, <<(<<-8250, 2850>>)>>,
      <<(<<-9000, 2850>>), (<<-8250, 2850>>)>>,
      <<(<<-7575, 3300>>)>>, <<(<<-9000, 2850>>), (<<-7575, 3300>>)>> }

RemoveStart ==
    /\ locs = <<<<-9000, 2850>>, <<-8250, 2850>>>>
    /\ dates_and_times = [t \in 1..MaxTimes |-> ArchiveTime(t - 1)]
    /\ \E n \in 0..MaxFixes :
          /\ times_to_remove \in [1..n -> FixTimeChoices]
          /\ locs_to_remove \in [1..n -> FixLocChoices]
    /\ \E w \in WindChoices(Len(locs), MaxTimes) :
          /\ heap = [o \in {"input"} |-> w]
          /\ ws_in = w
    /\ wind_speeds = "input"
    /\ new_wind_speeds = None
    /\ returned = None
    /\ lines = <<>>
    /\ i = 0
    /\ j = 0
    /\ pc = "removeTCWinds"
    /\ season = <<>>
    /\ FreqIdle
    /\ TableIdle
    /\ FilterIdle
    /\ RegionIdle
    /\ SpeedIdle
    /\ AvgIdle
    /\ BootIdle
    /\ PipeIdle
    /\ IngestIdle
    /\ AnnualIdle
    /\ WindboxIdle

\* new_wind_speeds = wind_speeds; i = 0
RemoveBind ==
    /\ pc = "removeTCWinds"
    /\ heap' = Bind(heap, wind_speeds)[1]
    /\ new_wind_speeds' = Bind(heap, wind_speeds)[2]
    /\ i' = 0
    /\ j' = 0
    /\ pc' = "removing"
    /\ UNCHANGED <<wind_speeds, season, freqVars, tableVars, trackVars, filterVars, regionVars, speedVars, avgVars, bootVars, pipeVars, ingestVars,
                   returned, annualVars, windboxVars>>

\* the body of the inner loop: find k, then
\* new_wind_speeds[k][dates_and_times.index(times_to_remove[i])] = float('nan')
RemoveWrite ==
    /\ pc = "removing"
    /\ MoreTimes(i, times_to_remove)
    /\ i < Len(locs_to_remove)
    /\ j < Len(locs_to_remove[i + 1])
    /\ LET k == LocIndex(locs_to_remove[i + 1][j + 1], locs)
           t == TimeIndex(times_to_remove[i + 1], dates_and_times)
       IN  IF k >= Len(heap[new_wind_speeds])
           THEN pc' = "IndexError" /\ UNCHANGED <<j, heap>>
           ELSE IF t < 0
           THEN pc' = "ValueError" /\ UNCHANGED <<j, heap>>
           ELSE /\ heap' = [heap EXCEPT ![new_wind_speeds][k + 1][t + 1] = NaN]
                /\ j' = j + 1
                /\ UNCHANGED pc
    /\ UNCHANGED <<i, wind_speeds, season, freqVars, tableVars, trackVars, filterVars, regionVars, speedVars, avgVars, bootVars, pipeVars, ingestVars,
                   new_wind_speeds, returned, annualVars, windboxVars>>

\* the inner loop ends: i = i + 1, and j = 0 at the top of the outer loop
RemoveNextFix ==
    /\ pc = "removing"
    /\ MoreTimes(i, times_to_remove)
    /\ IF i < Len(locs_to_remove)
       THEN /\ j >= Len(locs_to_remove[i + 1])
            /\ i' = i + 1
            /\ j' = 0
            /\ UNCHANGED pc
       ELSE /\ pc' = "IndexError"
            /\ UNCHANGED <<i, j>>
    /\ UNCHANGED <<wind_speeds, season, freqVars, tableVars, trackVars, filterVars, regionVars, speedVars, avgVars, bootVars, pipeVars, ingestVars, heapVars, annualVars, windboxVars>>

\* return new_wind_speeds
RemoveReturned ==
    /\ pc = "removing"
    /\ ~MoreTimes(i, times_to_remove)
    /\ returned' = new_wind_speeds
    /\ pc' = "removed"
    /\ UNCHANGED <<i, j, wind_speeds, season, freqVars, tableVars, trackVars, filterVars, regionVars, speedVars, avgVars, bootVars, pipeVars, ingestVars,
                   heap, new_wind_speeds, annualVars, windboxVars>>

NextRemove == RemoveBind \/ RemoveWrite \/ RemoveNextFix \/ RemoveReturned

SpecRemove == RemoveStart /\ [][NextRemove]_vars

\* C26: removeTCWinds makes no copy: the object it returns is the object it
\* was given, and from the first write on every sample read through the
\* caller's reference is the sample of the array the function works on and
\* returns.
C26_ReturnsItsInput ==
    /\ (pc = "removed" => returned = wind_speeds /\ heap[wind_speeds] = heap[returned])
    /\ (pc \in {"removing", "removed", "IndexError", "ValueError"} =>
            heap[wind_speeds] = heap[new_wind_speeds])

\* the call has returned and a NaN the filter wrote is read through the
\* caller's reference
C26_Witness ==
    /\ pc = "removed"
    /\ \E k \in 1..Len(ws_in) : \E t \in 1..Len(ws_in[k]) :
          /\ ~IsNaN(ws_in[k][t])
          /\ IsNaN(heap[wind_speeds][k][t])
          /\ IsNaN(heap[returned][k][t])

\* the time of fix ii (0-based) is not an element of dates_and_times
TimeUnmatched(ii) ==
    \A t \in 1..Len(dates_and_times) : dates_and_times[t] # times_to_remove[ii + 1]

\* location jj (0-based) of the list of fix ii is not a row of locs
LocUnmatched(ii, jj) ==
    \A l \in 1..Len(locs) : locs[l] # locs_to_remove[ii + 1][jj + 1]

\* the loop is at a fix whose time or one of whose locations is unmatched
AtUnmatchedFix ==
    /\ pc = "removing"
    /\ i < Len(times_to_remove)
    /\ \/ TimeUnmatched(i)
       \/ \E jj \in 0..(Len(locs_to_remove[i + 1]) - 1) : LocUnmatched(i, jj)

\* the loop is at a location of a fix and the time of the fix or the
\* location is unmatched
AtUnmatchedSample ==
    /\ pc = "removing"
    /\ i < Len(times_to_remove)
    /\ j < Len(locs_to_remove[i + 1])
    /\ (TimeUnmatched(i) \/ LocUnmatched(i, j))

\* a sample that is NaN stays NaN, and nothing is done after an error
NaNStaysAndErrorEnds ==
    /\ [][\A k \in 1..Len(heap["input"]) : \A t \in 1..Len(heap["input"][k]) :
             IsNaN(heap["input"][k][t]) => IsNaN(heap'["input"][k][t])]_vars
    /\ [][pc \notin {"IndexError", "ValueError"}]_vars

\* C27 (as claimed): at a fix whose time is not in dates_and_times or one of
\* whose listed locations is not in locs the call ends in an error without
\* writing NaN to any sample for the fix and without going on to a later fix;
\* the samples that are NaN stay NaN.
C27_NoWriteAtUnmatchedFix ==
    /\ [][AtUnmatchedFix => (heap' = heap /\ i' = i /\ pc' # "removed")]_vars
    /\ NaNStaysAndErrorEnds

\* C27 (amended): at a fix whose time is not in dates_and_times the call ends
\* in an error without writing NaN to any sample for the fix; at a listed
\* location that is not in locs it ends in an error without writing NaN for
\* that location, the locations listed before it at the fix having been set
\* to NaN; in both cases no later fix is applied and the samples that are NaN
\* stay NaN.
C27_ErrorAtUnmatchedSample ==
    /\ [][AtUnmatchedSample => (pc' \in {"IndexError", "ValueError"} /\ heap' = heap)]_vars
    /\ [][(AtUnmatchedFix /\ TimeUnmatched(i)) => heap' = heap]_vars
    /\ [][AtUnmatchedFix => (i' = i /\ pc' # "removed")]_vars
    /\ NaNStaysAndErrorEnds

\* the call ended in an error at the second fix, whose time is not in
\* dates_and_times, and a sample the first fix set to NaN is NaN
C27_Witness ==
    /\ pc = "ValueError"
    /\ i = 1
    /\ TimeUnmatched(1)
    /\ \E k \in 1..Len(ws_in) : \E t \in 1..Len(ws_in[k]) :
          ~IsNaN(ws_in[k][t]) /\ IsNaN(heap["input"][k][t])

---------------------------------------------------------------------------
(* getAnnualMeans *)

(* A mean is kept as the exact quotient [num |-> sum, den |-> count]. The
   seven lists annual_means, annual_means_June, ... are the fields all,
   June, ..., Nov of annual_means.                                         *)

MeanNames == {"all", "June", "July", "Aug", "Sep", "Oct", "Nov"}

\* the sum and the number of the wind speeds at time ii (0-based) of the
\* locations 1..l that are not NaN: the inner loop over the locations
RECURSIVE SumAtTime(_, _, _)
SumAtTime(ws, ii, l) ==
    IF l = 0 THEN <<0, 0>>
    ELSE LET rest == SumAtTime(ws, ii, l - 1)
         IN  IF ~IsNaN(ws[l][ii + 1])
             THEN <<rest[1] + ws[l][ii + 1], rest[2] + 1>>
             ELSE rest

\* the if / elif chain with the test of June one index late
MonthEndingAtShifted(ii) ==
    CASE ii % 732 = 731 -> "Nov"
      [] ii % 732 = 128 -> "June"
      [] ii % 732 = 251 -> "July"
      [] ii % 732 = 375 -> "Aug"
      [] ii % 732 = 495 -> "Sep"
      [] ii % 732 = 619 -> "Oct"
      [] OTHER -> ""

\* the month list a mean is appended to at the end of pass ii of the loop
\* over the times (the if / elif chain on i % 732), "" when there is none
MonthEndingAt(ii) ==
    CASE ii % 732 = 731 -> "Nov"
      [] ii % 732 = 127 -> "June"
      [] ii % 732 = 251 -> "July"
      [] ii % 732 = 375 -> "Aug"
      [] ii % 732 = 495 -> "Sep"
      [] ii % 732 = 619 -> "Oct"
      [] OTHER -> ""

\* the arrays tried: p = 1 has no NaN, p = 2 has NaN samples in every month,
\* p = 3 has nothing but NaN in the June of the first season
AnnualSample(p, l, jj) ==
    IF p = 2 /\ (jj + l) % 5 = 0 THEN NaN
    ELSE IF p = 3 /\ jj < 128 THEN NaN
    ELSE 10 + ((7 * jj + 3 * l + (jj \div 732)) % 23)

AnnualInput(p, nl, s) ==
    [l \in 1..nl |-> [t \in 1..(s * 732) |-> AnnualSample(p, l, t - 1)]]

AnnualStart ==
    /\ \E p \in 1..3, nl \in 1..MaxLocs, s \in 1..MaxSeasons :
           wind_speeds = AnnualInput(p, nl, s)
    /\ annual_means = [m \in MeanNames |-> <<>>]
    /\ total_sum = 0
    /\ total_count = 0
    /\ month_sum = 0
    /\ month_count = 0
    /\ i = 0
    /\ j = 0
    /\ pc = "getAnnualMeans"
    /\ season = <<>>
    /\ FreqIdle
    /\ TableIdle
    /\ TrackIdle
    /\ FilterIdle
    /\ RegionIdle
    /\ SpeedIdle
    /\ AvgIdle
    /\ BootIdle
    /\ PipeIdle
    /\ IngestIdle
    /\ HeapIdle
    /\ WindboxIdle

\* one pass of the loop over the times: the loop over the locations, then
\* the means of the month and of the season that end at i; a mean of no
\* wind speed at all is 0/0 of integers, ZeroDivisionError
AnnualTime ==
    /\ pc = "getAnnualMeans"
    /\ i < Len(wind_speeds[1])
    /\ LET at == SumAtTime(wind_speeds, i, Len(wind_speeds))
           tsum == total_sum + at[1]
           tcount == total_count + at[2]
           msum == month_sum + at[1]
           mcount == month_count + at[2]
           m == MonthEndingAt(i)
       IN  IF m = ""
           THEN /\ total_sum' = tsum /\ total_count' = tcount
                /\ month_sum' = msum /\ month_count' = mcount
                /\ i' = i + 1
                /\ UNCHANGED <<pc, annual_means>>
           ELSE IF (m = "Nov" /\ tcount = 0) \/ mcount = 0
           THEN /\ pc' = "ZeroDivisionError"
                /\ total_sum' = tsum /\ total_count' = tcount
                /\ month_sum' = msum /\ month_count' = mcount
                /\ UNCHANGED <<i, annual_means>>
           ELSE /\ annual_means' =
                     [n \in MeanNames |->
                        IF n = m THEN Append(annual_means[n], [num |-> msum, den |-> mcount])
                        ELSE IF n = "all" /\ m = "Nov"
                        THEN Append(annual_means[n], [num |-> tsum, den |-> tcount])
                        ELSE annual_means[n]]
                /\ total_sum' = (IF m = "Nov" THEN 0 ELSE tsum)
                /\ total_count' = (IF m = "Nov" THEN 0 ELSE tcount)
                /\ month_sum' = 0
                /\ month_count' = 0
                /\ i' = i + 1
                /\ UNCHANGED pc
    /\ UNCHANGED <<j, wind_speeds, season, freqVars, tableVars, trackVars, filterVars, regionVars, speedVars, avgVars, bootVars, pipeVars, ingestVars, heapVars, windboxVars>>

\* the loop over the times ends
AnnualLoopEnd ==
    /\ pc = "getAnnualMeans"
    /\ i >= Len(wind_speeds[1])
    /\ pc' = "annualMeans"
    /\ UNCHANGED <<i, j, wind_speeds, season, freqVars, tableVars, trackVars, filterVars, regionVars, speedVars, avgVars, bootVars, pipeVars, ingestVars, heapVars,
                   annualVars, windboxVars>>

NextAnnual == AnnualTime \/ AnnualLoopEnd

SpecAnnual == AnnualStart /\ [][NextAnnual]_vars

\* the <<location, time index>> pairs of the samples at time index jj that
\* are not NaN and that divideBySeason places in bucket b (every sample for
\* b = "all")
BucketSamplesAt(jj, b) ==
    {q \in (1..Len(wind_speeds)) \X {jj} :
        /\ wind_speeds[q[1]][q[2] + 1] # NaN
        /\ (b = "all" \/ b \in BucketsOf(jj))}

\* <<the sum, the number>> of the samples of the time indices lo..hi that are
\* not NaN and that divideBySeason places in bucket b
RECURSIVE BucketTotal(_, _, _)
BucketTotal(b, lo, hi) ==
    IF lo > hi THEN <<0, 0>>
    ELSE IF lo = hi
    THEN <<SumOver(BucketSamplesAt(lo, b)), Cardinality(BucketSamplesAt(lo, b))>>
    ELSE LET mid == (lo + hi) \div 2
             left == BucketTotal(b, lo, mid)
             right == BucketTotal(b, mid + 1, hi)
         IN  <<left[1] + right[1], left[2] + right[2]>>

\* C28: for an input of S whole seasons, when the loop of getAnnualMeans
\* ends each of the seven lists has S entries and the entry of season y of
\* the list of month M is the sum of the samples of season y that are not
\* NaN and that divideBySeason places in bucket M, divided by their number
\* (all the samples of the season for the list of the whole season); the
\* loop ends unless a month of a season has no sample that is not NaN.
C28_AnnualMeansByBucket ==
    /\ pc = "annualMeans" =>
          \A b \in MeanNames :
              /\ Len(annual_means[b]) = Len(wind_speeds[1]) \div 732
              /\ \A y \in 0..(Len(annual_means[b]) - 1) :
                    /\ annual_means[b][y + 1].num = BucketTotal(b, 732 * y, 732 * y + 731)[1]
                    /\ annual_means[b][y + 1].den = BucketTotal(b, 732 * y, 732 * y + 731)[2]
                    /\ annual_means[b][y + 1].den > 0
    /\ pc = "ZeroDivisionError" =>
          \E b \in MeanNames :
              BucketTotal(b, 732 * (i \div 732), 732 * (i \div 732) + 731)[2] = 0

\* the means of two seasons of an array with NaN samples are computed
C28_Witness ==
    /\ pc = "annualMeans"
    /\ Len(wind_speeds) = 2
    /\ Len(wind_speeds[1]) = 2 * 732
    /\ \E t \in 1..732 : IsNaN(wind_speeds[1][t])
    /\ Len(annual_means["June"]) = 2
    /\ annual_means["June"][2].den < 2 * 128
    /\ Len(annual_means["all"]) = 2

---------------------------------------------------------------------------
(* windbox_final.py: main *)

\* the wind speed of every grid point and time, none of them 0
GridWinds(ny, nx, nt) ==
    [y \in 1..ny |-> [x \in 1..nx |-> [t \in 1..nt |-> 100 * y + 10 * x + t]]]

\* np.zeros([ncoast,len(mydate)])
np_zeros2(n, m) == [k \in 1..n |-> [t \in 1..m |-> 0]]

\* row[0:hi] = src[0:hi] of two rows of the same length: the elements of
\* index 0 .. hi-1 are copied (hi >= 0)
CopySlice(row, src, hi) ==
    [t \in 1..Len(row) |-> IF t <= hi THEN src[t] ELSE row[t]]

WindboxStart ==
    /\ \E nt \in 1..MaxDates :
          /\ wspd = GridWinds(MaxGrid, MaxGrid, nt)
          /\ mydate = [t \in 1..nt |-> 696120 + 6 * (t - 1)]
          /\ \E n \in 1..MaxCoast :
                /\ ix \in [1..n -> 0..(MaxGrid - 1)]
                /\ iy \in [1..n -> 0..(MaxGrid - 1)]
                /\ ts = np_zeros2(n, nt)
    /\ i = 0
    /\ j = 0
    /\ pc = "windbox"
    /\ wind_speeds = <<>>
    /\ season = <<>>
    /\ FreqIdle
    /\ TableIdle
    /\ TrackIdle
    /\ FilterIdle
    /\ RegionIdle
    /\ SpeedIdle
    /\ AvgIdle
    /\ BootIdle
    /\ PipeIdle
    /\ IngestIdle
    /\ HeapIdle
    /\ AnnualIdle

\* for n in range(ncoast): ts[n,0:len(mydate)-1]=wspd[iy[n],ix[n],0:len(mydate)-1]
\* (i is the loop variable n)
WindboxPoint ==
    /\ pc = "windbox"
    /\ i < Len(ix)
    /\ ts' = [ts EXCEPT ![i + 1] =
                 CopySlice(@, wspd[iy[i + 1] + 1][ix[i + 1] + 1], Len(mydate) - 1)]
    /\ i' = i + 1
    /\ UNCHANGED <<pc, j, wind_speeds, season, freqVars, tableVars, trackVars, filterVars, regionVars, speedVars, avgVars, bootVars, pipeVars, ingestVars, heapVars, annualVars,
                   wspd, ix, iy, mydate>>

\* np.savez('timeseries_June2018_upper_tropo.npz', loc=loc, ts=ts, mydate=mydate)
WindboxSave ==
    /\ pc = "windbox"
    /\ i >= Len(ix)
    /\ pc' = "saved"
    /\ UNCHANGED <<i, j, wind_speeds, season, freqVars, tableVars, trackVars, filterVars, regionVars, speedVars, avgVars, bootVars, pipeVars, ingestVars, heapVars, annualVars,
                   windboxVars>>

NextWindbox == WindboxPoint \/ WindboxSave

SpecWindbox == WindboxStart /\ [][NextWindbox]_vars

\* C30: when the file is saved, for every coastal point n and every time
\* index t, the last one included, ts[n][t] is wspd[iy[n]][ix[n]][t], and no
\* element of ts is left at 0.
C30_CompleteTimeSeries ==
    pc = "saved" =>
        \A n \in 1..Len(ts) : \A t \in 1..Len(mydate) :
            /\ ts[n][t] = wspd[iy[n] + 1][ix[n] + 1][t]
            /\ ts[n][t] # 0

====
